---------------------------- MODULE Spec2Model ----------------------------
(***************************************************************************)
(* The diff view of GitSavvy (core/commands/diff.py): the view's settings  *)
(* bag, its text buffer and selection, the undo history of applied         *)
(* patches, and the two threads of the plugin host (the UI thread that     *)
(* runs the text commands and the async thread that runs the callbacks of  *)
(* sublime.set_timeout_async).                                             *)
(*                                                                         *)
(* Text is modelled character by character as TLA+ strings; a point of the *)
(* editor (0-based) is the number of characters before it.                 *)
(***************************************************************************)
EXTENDS Integers, Sequences, FiniteSets, TLC

(***************************************************************************)
(* Bounds of the model.                                                    *)
(***************************************************************************)
MaxSteps == 3

None == "None"

(***************************************************************************)
(* Strings and sequences.                                                  *)
(***************************************************************************)
Min(a, b) == IF a <= b THEN a ELSE b

Max(a, b) == IF a >= b THEN a ELSE b

Front(s) == SubSeq(s, 1, Len(s) - 1)

Last(s) == s[Len(s)]

\* view.substr(sublime.Region(a, b)): the characters of [a, b), clamped to
\* the buffer.
Substr(text, a, b) == SubSeq(text, Max(a, 0) + 1, Min(b, Len(text)))

StartsWithAt(text, pt, prefix) ==
    SubSeq(text, pt + 1, Min(pt + Len(prefix), Len(text))) = prefix

\* The points at which a line of the buffer starts and has a character.
LineStarts(text) ==
    {pt \in 0..(Len(text) - 1) : pt = 0 \/ SubSeq(text, pt, pt) = "\n"}

\* The point after the newline that ends the line containing pt (the buffer
\* size when the line is the last and has no newline).
RECURSIVE LineEnd(_, _)
LineEnd(text, pt) ==
    IF pt >= Len(text) THEN Len(text)
    ELSE IF SubSeq(text, pt + 1, pt + 1) = "\n" THEN pt + 1
    ELSE LineEnd(text, pt + 1)

\* sorted(list(set)): the elements of a set of integers in ascending order.
RECURSIVE SortedSeq(_)
SortedSeq(S) ==
    IF S = {} THEN <<>>
    ELSE LET m == CHOOSE x \in S : \A y \in S : x <= y
         IN  <<m>> \o SortedSeq(S \ {m})

\* zip(a, b): pairs up to the shorter of the two.
Zip(a, b) == [i \in 1..Min(Len(a), Len(b)) |-> <<a[i], b[i]>>]

\* view.find(literal, 0, sublime.LITERAL): the first point at which the
\* literal occurs, or -1.
FindLiteral(text, literal) ==
    LET hits == {pt \in 0..(Len(text) - Len(literal)) :
                    SubSeq(text, pt + 1, pt + Len(literal)) = literal}
    IN  IF literal = "" \/ hits = {} THEN -1
        ELSE CHOOSE pt \in hits : \A q \in hits : pt <= q

Contains(text, literal) ==
    /\ literal # ""
    /\ \E pt \in 0..(Len(text) - Len(literal)) :
          SubSeq(text, pt + 1, pt + Len(literal)) = literal

(***************************************************************************)
(* parse_diff_in_view                                                      *)
(***************************************************************************)
\* view.find_all("^diff"): region.a of every match.
header_starts(text, starts) ==
    SortedSeq({pt \in starts : StartsWithAt(text, pt, "diff")})

\* view.find_all(r"^\+\+\+.+\n(?=@@)"): region.b of every match, the point
\* after the newline of a "+++" line that has a further character and is
\* followed by a line starting with "@@".
header_ends(text, starts) ==
    SortedSeq({LineEnd(text, pt) : pt \in
        {p \in starts :
            /\ StartsWithAt(text, p, "+++")
            /\ LET e == LineEnd(text, p)
               IN  /\ e - p >= 5
                   /\ SubSeq(text, e, e) = "\n"
                   /\ StartsWithAt(text, e, "@@")}})

\* view.find_all("^@@"): region.a of every match.
hunk_starts(text, starts) ==
    SortedSeq({pt \in starts : StartsWithAt(text, pt, "@@")})

Range(s) == {s[i] : i \in 1..Len(s)}

hunk_ends(text, hdr_starts, hdr_ends, hnk_starts) ==
    SortedSeq(
        Range(SubSeq(hdr_starts, 2, Len(hdr_starts)))
        \cup (Range(hnk_starts) \ Range(hdr_ends))
        \cup {Len(text) + 1})

parse_diff_in_view(text) ==
    LET starts == LineStarts(text)
        hdr_starts == header_starts(text, starts)
        hdr_ends == header_ends(text, starts)
        hnk_starts == hunk_starts(text, starts)
    IN  [headers |-> Zip(hdr_starts, hdr_ends),
         hunks   |-> Zip(hnk_starts, hunk_ends(text, hdr_starts, hdr_ends, hnk_starts))]

(***************************************************************************)
(* head_and_hunk_for_pt                                                    *)
(***************************************************************************)
\* Tuple comparison of Python: (a, b) < (c, d).
PairLess(p, q) == p[1] < q[1] \/ (p[1] = q[1] /\ p[2] < q[2])

\* The result is NotFound (None), Raised (max() of an empty sequence raises
\* ValueError) or the pair <<header, hunk>>.
NotFound == <<>>

Raised == <<"ValueError">>

\* The lookup if a hunk without a header before it counted as not found.
head_and_hunk_for_pt_lenient(diff, pt) ==
    LET inside == {i \in 1..Len(diff.hunks) :
                      diff.hunks[i][1] <= pt /\ pt < diff.hunks[i][2]}
    IN  IF inside = {} THEN NotFound
        ELSE LET hunk == diff.hunks[CHOOSE i \in inside : \A j \in inside : i <= j]
                 before == {h \in Range(diff.headers) : PairLess(h, hunk)}
             IN  IF before = {} THEN NotFound
                 ELSE <<CHOOSE h \in before :
                            \A g \in before : g = h \/ PairLess(g, h),
                        hunk>>

\* The lookup if the hunk spans were closed at their end.
head_and_hunk_for_pt_closed(diff, pt) ==
    LET inside == {i \in 1..Len(diff.hunks) :
                      diff.hunks[i][1] <= pt /\ pt <= diff.hunks[i][2]}
    IN  IF inside = {} THEN NotFound
        ELSE LET hunk == diff.hunks[CHOOSE i \in inside : \A j \in inside : i <= j]
                 before == {h \in Range(diff.headers) : PairLess(h, hunk)}
             IN  IF before = {} THEN Raised
                 ELSE <<CHOOSE h \in before :
                            \A g \in before : g = h \/ PairLess(g, h),
                        hunk>>

\* for hunk in diff['hunks']: if hunk_start <= pt < hunk_end: break; else
\* return None; then max() over the headers that are less than the hunk.
head_and_hunk_for_pt(diff, pt) ==
    LET inside == {i \in 1..Len(diff.hunks) :
                      diff.hunks[i][1] <= pt /\ pt < diff.hunks[i][2]}
    IN  IF inside = {} THEN NotFound
        ELSE LET hunk == diff.hunks[CHOOSE i \in inside : \A j \in inside : i <= j]
                 before == {h \in Range(diff.headers) : PairLess(h, hunk)}
             IN  IF before = {} THEN Raised
                 ELSE <<CHOOSE h \in before :
                            \A g \in before : g = h \/ PairLess(g, h),
                        hunk>>

(***************************************************************************)
(* unique, extract_content and the patch of                                *)
(* GsDiffStageOrResetHunkCommand.run                                       *)
(***************************************************************************)
RECURSIVE unique_append(_, _)
unique_append(rv, items) ==
    IF items = <<>> THEN rv
    ELSE unique_append(IF Head(items) \in Range(rv) THEN rv
                       ELSE Append(rv, Head(items)),
                       Tail(items))

unique(items) == unique_append(<<>>, items)

\* view.substr(sublime.Region(*region)): a region is read from its lower to
\* its higher end.
extract_content(text, region) ==
    Substr(text, Min(region[1], region[2]), Max(region[1], region[2]))

\* cursor.a for every cursor of the selection, ranges included.
cursor_pts_all(sel) == [i \in 1..Len(sel) |-> sel[i][1]]

\* cursor.a for every cursor of the selection with cursor.a == cursor.b.
RECURSIVE cursor_pts(_)
cursor_pts(sel) ==
    IF sel = <<>> THEN <<>>
    ELSE (IF Head(sel)[1] = Head(sel)[2] THEN <<Head(sel)[1]>> ELSE <<>>)
         \o cursor_pts(Tail(sel))

\* flatten(filter_(head_and_hunk_for_pt(diff, pt) for pt in cursor_pts))
RECURSIVE flatten_found(_, _)
flatten_found(diff, pts) ==
    IF pts = <<>> THEN <<>>
    ELSE LET hh == head_and_hunk_for_pt(diff, Head(pts))
         IN  (IF hh = NotFound THEN <<>> ELSE hh) \o flatten_found(diff, Tail(pts))

RECURSIVE join(_)
join(strs) == IF strs = <<>> THEN "" ELSE Head(strs) \o join(Tail(strs))

raises_in(diff, pts) ==
    \E i \in 1..Len(pts) : head_and_hunk_for_pt(diff, pts[i]) = Raised

patches(diff, pts) == unique(flatten_found(diff, pts))

\* The patch if entries were removed by their text, not by their span.
patch_of_unique_texts(text, diff, pts) ==
    LET spans == flatten_found(diff, pts)
    IN  join(unique([i \in 1..Len(spans) |-> extract_content(text, spans[i])]))

patch_of(text, diff, pts) ==
    LET spans == patches(diff, pts)
    IN  join([i \in 1..Len(spans) |-> extract_content(text, spans[i])])

(***************************************************************************)
(* find_hunk_in_view and the functions it is made of                       *)
(***************************************************************************)
\* str.split('\n'): the pieces between the newlines of str, one more than
\* there are newlines.
split(str) ==
    LET newlines == SortedSeq({i \in 1..Len(str) : SubSeq(str, i, i) = "\n"})
        from(k) == IF k = 1 THEN 1 ELSE newlines[k - 1] + 1
        to(k) == IF k = Len(newlines) + 1 THEN Len(str) ELSE newlines[k] - 1
    IN  [k \in 1..(Len(newlines) + 1) |-> SubSeq(str, from(k), to(k))]

\* '\n'.join(lines)
RECURSIVE join_lines(_)
join_lines(lines) ==
    IF lines = <<>> THEN ""
    ELSE IF Len(lines) = 1 THEN lines[1]
    ELSE lines[1] \o "\n" \o join_lines(Tail(lines))

not_hunk_start(line) == ~StartsWithAt(line, 0, "@@ ")

RECURSIVE dropwhile_not_hunk_start(_)
dropwhile_not_hunk_start(lines) ==
    IF lines = <<>> THEN <<>>
    ELSE IF not_hunk_start(Head(lines)) THEN dropwhile_not_hunk_start(Tail(lines))
    ELSE lines

RECURSIVE takewhile_not_hunk_start(_)
takewhile_not_hunk_start(lines) ==
    IF lines = <<>> THEN <<>>
    ELSE IF not_hunk_start(Head(lines))
         THEN <<Head(lines)>> \o takewhile_not_hunk_start(Tail(lines))
    ELSE <<>>

\* The lines of the first hunk of the patch, the "@@ " line first; the empty
\* sequence stands for None.
extract_first_hunk(patch) ==
    LET dropped == dropwhile_not_hunk_start(split(patch))
    IN  IF dropped = <<>> THEN <<>>
        ELSE <<Head(dropped)>> \o takewhile_not_hunk_start(Tail(dropped))

\* The lists if only the first line were dropped in every round.
RECURSIVE shrink_list_front(_)
shrink_list_front(list) ==
    IF list = <<>> THEN <<>>
    ELSE <<list>> \o shrink_list_front(Tail(list))

\* The lists shrink_list_sym yields, in order.
RECURSIVE shrink_list_sym(_)
shrink_list_sym(list) ==
    IF list = <<>> THEN <<>>
    ELSE <<list>> \o shrink_list_sym(SubSeq(list, 2, Len(list) - 1))

\* view.text_point(view.rowcol(pt)[0], 0): the start of the line of pt.
LineStartOf(text, pt) ==
    LET before == {q \in 1..Min(pt, Len(text)) : SubSeq(text, q, q) = "\n"}
    IN  IF before = {} THEN 0 ELSE CHOOSE q \in before : \A r \in before : r <= q

\* line_regions_before_pt: the starts of the lines of the rows before the
\* row of pt.
line_starts_before_pt(text, pt) ==
    {p \in LineStarts(text) : p < LineStartOf(text, pt)}

\* The start of the nearest line before the row of pt that starts with
\* "@@ ", or -1 for None.
find_hunk_start_before_pt(text, pt) ==
    LET rows == {p \in line_starts_before_pt(text, pt) : StartsWithAt(text, p, "@@ ")}
    IN  IF rows = {} THEN -1
        ELSE CHOOSE p \in rows : \A q \in rows : q <= p

\* The start of the hunk found for the first list of shrink_list_sym(lines)
\* that occurs in the view, or -1 for None.
RECURSIVE fuzzy_search_lists(_, _)
fuzzy_search_lists(text, lists) ==
    IF lists = <<>> THEN -1
    ELSE LET a == FindLiteral(text, join_lines(Head(lists)))
         IN  IF a >= 0 THEN find_hunk_start_before_pt(text, a)
             ELSE fuzzy_search_lists(text, Tail(lists))

fuzzy_search_hunk_content_in_view(text, lines) ==
    fuzzy_search_lists(text, shrink_list_sym(lines))

\* region.a of the region find_hunk_in_view returns, or -1 when it returns
\* None or a region that is not truthy.
find_hunk_in_view(text, patch) ==
    LET hunk_content == extract_first_hunk(patch)
    IN  IF hunk_content = <<>> THEN -1
        ELSE LET a == FindLiteral(text, hunk_content[1])
             IN  IF a >= 0 THEN a
                 ELSE fuzzy_search_hunk_content_in_view(text, Tail(hunk_content))

(***************************************************************************)
(* real_rowcol_in_hunk, split_hunk and jump_position_to_file               *)
(***************************************************************************)
\* str[i - 1], or "" past the end of the string.
CharAt(str, i) == Substr(str, i - 1, i)

\* str.isspace() of one character.
IsSpace(c) == c \in {" ", "\t", "\n", "\r"}

\* str.rstrip()
RECURSIVE rstrip(_)
rstrip(str) ==
    IF str # "" /\ IsSpace(CharAt(str, Len(str))) THEN rstrip(Front(str))
    ELSE str

\* bool(str.strip()): the string has a character that is not whitespace.
strip_nonempty(str) == \E i \in 1..Len(str) : ~IsSpace(CharAt(str, i))

\* len(line) - len(line.lstrip())
line_indentation(line) ==
    LET nonspace == {i \in 1..Len(line) : ~IsSpace(CharAt(line, i))}
    IN  IF nonspace = {} THEN Len(line)
        ELSE (CHOOSE i \in nonspace : \A j \in nonspace : i <= j) - 1

IsDigit(c) == c \in {"0", "1", "2", "3", "4", "5", "6", "7", "8", "9"}

DigitValue(c) ==
    CASE c = "0" -> 0 [] c = "1" -> 1 [] c = "2" -> 2 [] c = "3" -> 3
      [] c = "4" -> 4 [] c = "5" -> 5 [] c = "6" -> 6 [] c = "7" -> 7
      [] c = "8" -> 8 [] c = "9" -> 9

\* int(digits)
RECURSIVE int(_)
int(digits) ==
    IF digits = "" THEN 0
    ELSE int(Front(digits)) * 10 + DigitValue(CharAt(digits, Len(digits)))

\* The index after the digits \d* that start at index i.
DigitsEnd(str, i) ==
    LET stops == {j \in i..Max(i, Len(str) + 1) :
                     j > Len(str) \/ ~IsDigit(CharAt(str, j))}
    IN  CHOOSE j \in stops : \A k \in stops : j <= k

\* The index after (?:,\d+)? at index i.
AfterCount(str, i) ==
    IF CharAt(str, i) = "," /\ DigitsEnd(str, i + 1) > i + 1
    THEN DigitsEnd(str, i + 1)
    ELSE i

\* HUNKS_LINES_RE.match at index p: group 2 if '@@ -(\d+)(?:,\d+)? \+(\d+)(?:,\d+)? '
\* matches there, or None.
hunks_lines_match_at(str, p) ==
    LET a == p + 4
        a_end == DigitsEnd(str, a)
        plus == AfterCount(str, a_end)
        b == plus + 2
        b_end == DigitsEnd(str, b)
        space == AfterCount(str, b_end)
    IN  IF /\ Substr(str, p - 1, p + 3) = "@@ -"
           /\ a_end > a
           /\ Substr(str, plus - 1, plus + 1) = " +"
           /\ b_end > b
           /\ CharAt(str, space) = " "
        THEN Substr(str, b - 1, b_end - 1)
        ELSE None

\* HUNKS_LINES_RE.search(head).group(2), or None when there is no match.
hunks_lines_search(head) ==
    LET hits == {p \in 1..Len(head) : hunks_lines_match_at(head, p) # None}
    IN  IF hits = {} THEN None
        ELSE hunks_lines_match_at(head, CHOOSE p \in hits : \A q \in hits : p <= q)

\* HunkLine(mode, text, b)
HunkLine(mode, text, b) == [mode |-> mode, text |-> text, b |-> b]

\* _recount_lines with b += 1 after every line.
RECURSIVE _recount_lines_every(_, _)
_recount_lines_every(lines, b) ==
    IF lines = <<>> THEN <<>>
    ELSE <<HunkLine(SubSeq(lines[1], 1, 1), SubSeq(lines[1], 2, Len(lines[1])), b)>>
         \o _recount_lines_every(Tail(lines), b + 1)

\* _recount_lines of lines that have a first character.
RECURSIVE _recount_lines(_, _)
_recount_lines(lines, b) ==
    IF lines = <<>> THEN <<>>
    ELSE LET first_char == SubSeq(lines[1], 1, 1)
             tail == SubSeq(lines[1], 2, Len(lines[1]))
         IN  <<HunkLine(first_char, tail, b)>>
             \o _recount_lines(Tail(lines), IF first_char # "-" THEN b + 1 ELSE b)

\* split_hunk: kind "None" when the first line has no line numbers, kind
\* "IndexError" when line[0] is taken of an empty line, else the list.
split_hunk(hunk) ==
    LET all == split(rstrip(hunk))
        head == all[1]
        tail == Tail(all)
        group2 == hunks_lines_search(head)
    IN  IF group2 = None THEN [kind |-> "None", lines |-> <<>>]
        ELSE IF \E i \in DOMAIN tail : tail[i] = ""
        THEN [kind |-> "IndexError", lines |-> <<>>]
        ELSE [kind |-> "list", lines |-> _recount_lines(tail, int(group2))]

\* view.rowcol(pt)
rowcol(text, pt) ==
    <<Cardinality({q \in 1..Min(pt, Len(text)) : SubSeq(text, q, q) = "\n"}),
      pt - LineStartOf(text, pt)>>

relative_rowcol_in_hunk(text, hunk_start, pt) ==
    <<rowcol(text, pt)[1] - rowcol(text, hunk_start)[1], Max(rowcol(text, pt)[2], 1)>>

\* The results of real_rowcol_in_hunk.
NoRowCol == [kind |-> "None", row |-> 0, col |-> 0]

RowColIndexError == [kind |-> "IndexError", row |-> 0, col |-> 0]

RowCol(row, col) == [kind |-> "rowcol", row |-> row, col |-> col]

\* The loop over the lines after a deleted line, in which a context line
\* always gives its own number.
deleted_rowcol_context_own(hunk_lines, row_in_hunk, col) ==
    LET line == hunk_lines[row_in_hunk]
        next == {i \in (row_in_hunk + 1)..Len(hunk_lines) :
                    hunk_lines[i].mode \in {"+", " "}}
    IN  IF next = {} THEN RowCol(line.b, 1)
        ELSE LET next_line == hunk_lines[CHOOSE i \in next : \A j \in next : i <= j]
             IN  IF next_line.mode = "+"
                 THEN RowCol(next_line.b, Min(col, Len(next_line.text) + 1))
                 ELSE RowCol(next_line.b, line_indentation(next_line.text) + 1)

\* The loop over the lines after a deleted line, in which the first added
\* line is taken if there is one, and else the first context line.
deleted_rowcol_added_first(hunk_lines, row_in_hunk, col) ==
    LET line == hunk_lines[row_in_hunk]
        after == (row_in_hunk + 1)..Len(hunk_lines)
        added == {i \in after : hunk_lines[i].mode = "+"}
        context == {i \in after : hunk_lines[i].mode = " "}
    IN  IF added # {}
        THEN LET next_line == hunk_lines[CHOOSE i \in added : \A j \in added : i <= j]
             IN  RowCol(next_line.b, Min(col, Len(next_line.text) + 1))
        ELSE IF context # {}
        THEN LET next_line == hunk_lines[CHOOSE i \in context : \A j \in context : i <= j]
             IN  IF line_indentation(next_line.text) = line_indentation(line.text)
                 THEN RowCol(next_line.b, line_indentation(next_line.text) + 1)
                 ELSE RowCol(Max(1, line.b - 1), 1)
        ELSE RowCol(line.b, 1)

\* real_rowcol_in_hunk, lines 684-699: the loop over the lines after the
\* deleted line hunk_lines[row_in_hunk], which returns at the first line that
\* is added or context.
deleted_rowcol(hunk_lines, row_in_hunk, col) ==
    LET line == hunk_lines[row_in_hunk]
        next == {i \in (row_in_hunk + 1)..Len(hunk_lines) :
                    hunk_lines[i].mode \in {"+", " "}}
    IN  IF next = {} THEN RowCol(line.b, 1)
        ELSE LET next_line == hunk_lines[CHOOSE i \in next : \A j \in next : i <= j]
                 next_lines_indentation == line_indentation(next_line.text)
             IN  IF next_line.mode = "+"
                 THEN RowCol(next_line.b, Min(col, Len(next_line.text) + 1))
                 ELSE IF next_lines_indentation = line_indentation(line.text)
                 THEN RowCol(next_line.b, next_lines_indentation + 1)
                 ELSE RowCol(Max(1, line.b - 1), 1)

\* The row of the header line stands for the first added or context line
\* with content, or for the first line.
first_visible_row(hunk_lines) ==
    LET visible == {i \in DOMAIN hunk_lines :
                       /\ hunk_lines[i].mode \in {"+", " "}
                       /\ strip_nonempty(hunk_lines[i].text)}
    IN  IF visible = {} THEN 1 ELSE CHOOSE i \in visible : \A j \in visible : i <= j

real_rowcol_in_lines(hunk_lines, relative_rowcol) ==
    LET on_header == relative_rowcol[1] = 0
        row_in_hunk == IF on_header THEN first_visible_row(hunk_lines.lines)
                       ELSE relative_rowcol[1]
        col == IF on_header THEN 1 ELSE relative_rowcol[2]
    IN  IF hunk_lines.kind = "IndexError" THEN RowColIndexError
        ELSE IF hunk_lines.kind = "None" \/ hunk_lines.lines = <<>> THEN NoRowCol
        ELSE IF row_in_hunk > Len(hunk_lines.lines) THEN RowColIndexError
        ELSE IF hunk_lines.lines[row_in_hunk].mode # "-"
        THEN RowCol(hunk_lines.lines[row_in_hunk].b, col)
        ELSE deleted_rowcol(hunk_lines.lines, row_in_hunk, col)

\* real_rowcol_in_hunk: split_hunk is computed once.
real_rowcol_in_hunk(hunk, relative_rowcol) ==
    CHOOSE result \in {real_rowcol_in_lines(hunk_lines, rc) :
                          hunk_lines \in {split_hunk(hunk)}, rc \in {relative_rowcol}} : TRUE

\* HEADER_TO_FILE_RE.search(header).group(1): the rest of the last line of
\* the header after the first "+++ b/" in it, or None.
extract_filename_from_header(header) ==
    LET end == IF header # "" /\ SubSeq(header, Len(header), Len(header)) = "\n"
               THEN Len(header) - 1 ELSE Len(header)
        hits == {p \in 1..(end - 6) :
                    /\ SubSeq(header, p, p + 5) = "+++ b/"
                    /\ \A q \in (p + 6)..end : SubSeq(header, q, q) # "\n"}
    IN  IF hits = {} THEN None
        ELSE SubSeq(header, (CHOOSE p \in hits : \A q \in hits : p <= q) + 6, end)

\* The results of jump_position_to_file.
NoJump == [kind |-> "None", filename |-> None, row |-> 0, col |-> 0]

JumpRaised(error) == [kind |-> error, filename |-> None, row |-> 0, col |-> 0]

jump_position_of(text, head_and_hunk_offsets, pt) ==
    LET header == extract_content(text, head_and_hunk_offsets[1])
        hunk == extract_content(text, head_and_hunk_offsets[2])
        hunk_start == head_and_hunk_offsets[2][1]
        filename == extract_filename_from_header(header)
        jump(result) ==
            IF result.kind = "IndexError" THEN JumpRaised("IndexError")
            ELSE IF result.kind = "None" THEN NoJump
            ELSE IF filename = None THEN NoJump
            ELSE [kind |-> "jump", filename |-> filename,
                  row |-> result.row, col |-> result.col]
    IN  IF head_and_hunk_offsets = Raised THEN JumpRaised("ValueError")
        ELSE IF head_and_hunk_offsets = NotFound THEN NoJump
        ELSE CHOOSE jp \in
                 {jump(result) :
                     result \in {real_rowcol_in_hunk(
                                     hunk, relative_rowcol_in_hunk(text, hunk_start, pt))}} :
                 TRUE

\* jump_position_to_file: head_and_hunk_for_pt is computed once.
jump_position_to_file(text, diff, pt) ==
    CHOOSE jp \in {jump_position_of(text, head_and_hunk_offsets, pt) :
                      head_and_hunk_offsets \in {head_and_hunk_for_pt(diff, pt)}} : TRUE

(***************************************************************************)
(* The repository and the git executable.  The working tree differs from   *)
(* HEAD by the hunks of Hunks; each hunk is either an unstaged change of   *)
(* the working tree ("wt"), staged in the index ("idx"), or in neither     *)
(* ("none", after a discard).                                              *)
(***************************************************************************)
Hunks == 1..2

HunkFile(h) == IF h = 1 THEN "a" ELSE "b"

\* The hunk whose change is a change of whitespace only.
WhitespaceOnly(h) == h = 2

FileHeader(f) ==
    "diff --git a/" \o f \o " b/" \o f
    \o "\nindex 1..2 100644\n--- a/" \o f \o "\n+++ b/" \o f \o "\n"

\* The text of a hunk as git diff prints it with the given number of
\* context lines, in the line format or in the --word-diff format.
HunkText(h, context_lines, word_diff) ==
    IF h = 1 THEN
        IF word_diff
        THEN (IF context_lines = 0 THEN "@@ -1,0 +2 @@\n{+y+}\n"
              ELSE "@@ -1 +1,2 @@\nx\n{+y+}\n")
        ELSE (IF context_lines = 0 THEN "@@ -1,0 +2 @@\n+y\n"
              ELSE "@@ -1 +1,2 @@\n x\n+y\n")
    ELSE
        IF word_diff
        THEN (IF context_lines = 0 THEN "@@ -9 +9 @@\n[-p-]{+ p+}\n"
              ELSE "@@ -8,2 +8,2 @@\no\n[-p-]{+ p+}\n")
        ELSE (IF context_lines = 0 THEN "@@ -9 +9 @@\n-p\n+ p\n"
              ELSE "@@ -8,2 +8,2 @@\n o\n-p\n+ p\n")

RECURSIVE RenderHunks(_, _, _, _)
RenderHunks(hs, f, context_lines, word_diff) ==
    IF hs = {} THEN ""
    ELSE LET h == CHOOSE x \in hs : \A y \in hs : x <= y
         IN  (IF HunkFile(h) = f THEN HunkText(h, context_lines, word_diff) ELSE "")
             \o RenderHunks(hs \ {h}, f, context_lines, word_diff)

RenderFile(hs, f, context_lines, word_diff) ==
    IF \E h \in hs : HunkFile(h) = f
    THEN FileHeader(f) \o RenderHunks(hs, f, context_lines, word_diff)
    ELSE ""

\* The output of --stat: a line per file and the summary line.
RenderStat(hs) ==
    LET fs == {HunkFile(h) : h \in hs}
    IN  IF fs = {} THEN ""
        ELSE (IF "a" \in fs THEN " a | 2 +-\n" ELSE "")
             \o (IF "b" \in fs THEN " b | 2 +-\n" ELSE "")
             \o (IF Cardinality(fs) = 1 THEN " 1 file changed\n\n"
                 ELSE " 2 files changed\n\n")

\* The diff of two commits, which no apply of the view changes.
CommitDiff(base_commit, target_commit, context_lines) ==
    "diff --git a/c b/c\nindex 3..4 100644\n--- a/c\n+++ b/c\n"
    \o (IF base_commit = "b" THEN "@@ -1 +1 @@\n-m\n+n\n"
        ELSE "@@ -1 +1 @@\n-n\n+m\n")

\* self.git("diff", ...) of GsDiffRefreshCommand._run when it succeeds.
GitDiff(rp, s) ==
    IF s.base_commit # None \/ s.target_commit # None
    THEN CommitDiff(s.base_commit, s.target_commit, s.context_lines)
    ELSE LET side == IF s.in_cached_mode THEN "idx" ELSE "wt"
             hs == {h \in Hunks : rp[h] = side
                                  /\ ~(s.ignore_whitespace /\ WhitespaceOnly(h))}
         IN  (IF s.show_diffstat THEN RenderStat(hs) ELSE "")
             \o RenderFile(hs, "a", s.context_lines, s.show_word_diff)
             \o RenderFile(hs, "b", s.context_lines, s.show_word_diff)

\* The hunks a patch is made of, and whether it was made without context.
PatchHunks(patch) ==
    {h \in Hunks :
        /\ Contains(patch, FileHeader(HunkFile(h)))
        /\ \E c \in {0, 1} : Contains(patch, HunkText(h, c, FALSE))}

\* self.git("apply", ...): whether git applies the patch to the repository
\* and the repository it leaves.  A patch applies when each of its hunks is
\* where the direction and the target of the call take it from; a patch
\* without context needs --unidiff-zero.
ApplyFrom(args) ==
    IF args[3] = "--cached" THEN (IF args[2] = "-R" THEN "idx" ELSE "wt")
    ELSE (IF args[2] = "-R" THEN "wt" ELSE "none")

ApplyTo(args) ==
    IF args[3] = "--cached" THEN (IF args[2] = "-R" THEN "wt" ELSE "idx")
    ELSE (IF args[2] = "-R" THEN "none" ELSE "wt")

GitApply(rp, args, patch) ==
    LET hs == PatchHunks(patch)
        zero == \E h \in hs : ~Contains(patch, HunkText(h, 1, FALSE))
    IN  [ok   |-> /\ hs # {}
                  /\ \A h \in hs : rp[h] = ApplyFrom(args)
                  /\ zero => args[4] = "--unidiff-zero",
         repo |-> [h \in Hunks |-> IF h \in hs THEN ApplyTo(args) ELSE rp[h]]]

(***************************************************************************)
(* The state of a diff view.                                               *)
(***************************************************************************)
VARIABLES
    settings,   \* view.settings(): the keys git_savvy.* of the diff view
    text,       \* the buffer of the view
    sel,        \* view.sel(): the regions <<a, b>> of the selection, in order
    repo,       \* the repository: where each hunk is
    pending,    \* the callbacks _run queued by sublime.set_timeout_async
    flight,     \* the _run the async thread is executing
    env,        \* what makes the calls of git fail, if anything does
    out,        \* what the last step did: the calls of git apply, the
                \* refreshes it triggered, the message it showed, the cursors
                \* it set, the exception that left it
    steps       \* the number of steps taken

vars == <<settings, text, sel, repo, pending, flight, env, out, steps>>

\* pc: where the _run of the async thread is; kind: how its call of git diff
\* ended; prelude, diff: what it made; repo: the repository git diff read.
Idle == [pc |-> "idle", kind |-> "", prelude |-> "", diff |-> "", repo |-> <<>>]

\* cmd: the command or callback; calls: the calls of git apply; refresh: the
\* runs of gs_diff_refresh it asked for; ran: the _run executed before it
\* ended; refresh_raised: whether that _run raised; msg: the message shown;
\* set_cursor, cursor: the call of set_and_show_cursor; opened: the files it
\* loaded; raised: the exception that ended it.
NoOut(cmd) ==
    [cmd |-> cmd, calls |-> <<>>, refresh |-> 0, ran |-> 0,
     refresh_raised |-> FALSE, msg |-> "",
     set_cursor |-> FALSE, cursor |-> <<>>, opened |-> <<>>, raised |-> ""]

(***************************************************************************)
(* GsDiffRefreshCommand                                                    *)
(***************************************************************************)
prelude_of(s) ==
    "\n"
    \o (IF s.file_path # None THEN "  FILE: " \o s.file_path \o "\n" ELSE "")
    \o (IF s.disable_stage
        THEN (IF s.in_cached_mode
              THEN "  INDEX.."
                   \o (IF s.base_commit # None THEN s.base_commit ELSE s.target_commit)
                   \o "\n"
              ELSE IF s.base_commit # None /\ s.target_commit # None
              THEN "  " \o s.base_commit \o ".." \o s.target_commit \o "\n"
              ELSE "  WORKING DIR.."
                   \o (IF s.base_commit # None THEN s.base_commit ELSE s.target_commit)
                   \o "\n")
        ELSE (IF s.in_cached_mode THEN "  STAGED CHANGES (Will commit)\n"
              ELSE "  UNSTAGED CHANGES\n"))
    \o (IF s.ignore_whitespace THEN "  IGNORING WHITESPACE\n" ELSE "")

\* _run if it did not look at git_savvy.disable_diff.
run_diff_unchecked(s, rp, git_diff) ==
    [pc |-> "git", kind |-> git_diff, prelude |-> prelude_of(s),
     diff |-> IF git_diff = "ok" THEN GitDiff(rp, s) ELSE "",
     repo |-> rp]

\* _run up to the return of self.git("diff", ...): the settings are read, the
\* prelude is made and git computes the diff of the repository.  git_diff is
\* how the call ends: "ok", "decode" (a GitSavvyError whose first argument
\* is a UnicodeDecodeError) or "error" (any other GitSavvyError).
run_diff(s, rp, git_diff) ==
    IF s.disable_diff
    THEN [pc |-> "git", kind |-> "disabled", prelude |-> "", diff |-> "",
          repo |-> rp]
    ELSE [pc |-> "git", kind |-> git_diff, prelude |-> prelude_of(s),
          diff |-> IF git_diff = "ok" THEN GitDiff(rp, s) ELSE "",
          repo |-> rp]

\* gs_replace_view_text with restore_cursors: the text is replaced and the
\* regions of the selection are put back.
replace_view_text(new_text, sl) == sl

\* gs_diff_navigate: the cursor goes to the first "@@" line after the first
\* cursor, or to the first of the view when there is none after it.
gs_diff_navigate(txt, sl) ==
    LET starts == Range(hunk_starts(txt, LineStarts(txt)))
        after == {p \in starts : sl # <<>> /\ p > sl[1][1]}
        first(S) == CHOOSE p \in S : \A q \in S : p <= q
    IN  IF sl = <<>> \/ starts = {} THEN sl
        ELSE IF after # {} THEN <<<<first(after), first(after)>>>>
        ELSE <<<<first(starts), first(starts)>>>>

\* _run if every GitSavvyError of git diff disabled the diff of the view.
run_replace_disabling(s, txt, sl, d) ==
    IF d.kind = "disabled"
    THEN [settings |-> s, text |-> txt, sel |-> sl, raised |-> ""]
    ELSE IF d.kind \in {"decode", "error"}
    THEN [settings |-> [s EXCEPT !.disable_diff = TRUE],
          text |-> txt, sel |-> sl, raised |-> ""]
    ELSE [settings |-> [s EXCEPT !.raw_diff = d.diff],
          text |-> d.prelude \o "\n--\n" \o d.diff,
          sel |-> IF s.raw_diff = "" THEN gs_diff_navigate(d.prelude \o "\n--\n" \o d.diff, sl)
                  ELSE sl,
          raised |-> ""]

\* _run from the return of self.git("diff", ...) on.
run_replace(s, txt, sl, d) ==
    IF d.kind = "disabled"
    THEN [settings |-> s, text |-> txt, sel |-> sl, raised |-> ""]
    ELSE IF d.kind = "decode"
    THEN [settings |-> [s EXCEPT !.disable_diff = TRUE],
          text |-> txt, sel |-> sl, raised |-> ""]
    ELSE IF d.kind = "error"
    THEN [settings |-> s, text |-> txt, sel |-> sl, raised |-> "GitSavvyError"]
    ELSE LET new_text == d.prelude \o "\n--\n" \o d.diff
             restored == replace_view_text(new_text, sl)
         IN  [settings |-> [s EXCEPT !.raw_diff = d.diff],
              text |-> new_text,
              sel |-> IF s.raw_diff = "" THEN gs_diff_navigate(new_text, restored)
                      ELSE restored,
              raised |-> ""]

_run(s, txt, sl, rp, git_diff) == run_replace(s, txt, sl, run_diff(s, rp, git_diff))

\* The default if the refresh of a command were left to the async thread.
sync_default_async == FALSE

\* The default of the argument sync of GsDiffRefreshCommand.run.
sync_default == TRUE

\* GsDiffRefreshCommand.run: _run now, or queued for the async thread.
gs_diff_refresh(s, txt, sl, rp, pend, sync, git_diff) ==
    IF sync
    THEN LET r == _run(s, txt, sl, rp, git_diff)
         IN  [settings |-> r.settings, text |-> r.text, sel |-> r.sel,
              raised |-> r.raised, pending |-> pend, ran |-> 1]
    ELSE [settings |-> s, text |-> txt, sel |-> sl, raised |-> "",
          pending  |-> pend + 1, ran |-> 0]

\* view.sel() after set_and_show_cursor(view, cursors): the regions added,
\* in the order of the buffer.
RECURSIVE SortedRegions(_)
SortedRegions(S) ==
    IF S = {} THEN <<>>
    ELSE LET m == CHOOSE r \in S : \A q \in S : r = q \/ PairLess(r, q)
         IN  <<m>> \o SortedRegions(S \ {m})

set_and_show_cursor(regions) == SortedRegions(Range(regions))

PointRegions(pts) == [i \in 1..Len(pts) |-> <<pts[i], pts[i]>>]

\* The calls of git of the view fail for reasons outside the view: git apply
\* fails whatever the patch is ("apply_fails"), the output of git diff
\* cannot be decoded ("diff_decode"), git diff fails otherwise ("diff_error").
Environments == {"ok", "apply_fails", "diff_decode", "diff_error"}

\* How self.git("apply", ...) ends for a patch that applies to the
\* repository, and how self.git("diff", ...) ends.
git_ok(e) == e # "apply_fails"

git_diff_outcome(e) ==
    IF e = "diff_decode" THEN "decode" ELSE IF e = "diff_error" THEN "error" ELSE "ok"

\* Whether an exception of the command run by view.run_command reaches the
\* command that called it: both are taken, when the refresh raised.
Propagations(r) == IF r.raised = "" THEN {FALSE} ELSE BOOLEAN

(***************************************************************************)
(* GsDiffCommand.run_async: the settings of the view it constructs.  The   *)
(* behaviours start when the view was shown and its first refresh ran; the *)
(* view got the focus, and the refresh of on_activated_async is queued.    *)
(***************************************************************************)
NewSettings(in_cached_mode, base_commit, target_commit, disable_stage) ==
    [diff_view         |-> TRUE,
     file_path         |-> None,
     in_cached_mode    |-> in_cached_mode,
     ignore_whitespace |-> FALSE,
     show_word_diff    |-> FALSE,
     context_lines     |-> 3,
     base_commit       |-> base_commit,
     target_commit     |-> target_commit,
     show_diffstat     |-> TRUE,
     disable_stage     |-> disable_stage,
     history           |-> <<>>,
     just_hunked       |-> "",
     raw_diff          |-> "",
     disable_diff      |-> FALSE,
     last_cursors      |-> <<>>]

\* The arguments of gs_diff: the diff of the working tree, the diff of the
\* index, the diff of two commits, or the diff of the working tree against
\* one commit.
NewViews ==
    {NewSettings(FALSE, None, None, FALSE),
     NewSettings(TRUE, None, None, FALSE),
     NewSettings(FALSE, "b", "t", TRUE),
     NewSettings(FALSE, "b", None, TRUE)}

\* The repositories a view is opened on.
InitRepos == {[h \in Hunks |-> "wt"], [h \in Hunks |-> IF h = 1 THEN "idx" ELSE "wt"]}

Init ==
    /\ repo \in InitRepos
    /\ \E s \in NewViews :
          LET r == _run(s, "", <<<<0, 0>>>>, repo, "ok")
          IN  /\ settings = r.settings
              /\ text = r.text
              /\ sel = r.sel
    /\ pending = 1
    /\ flight = Idle
    /\ env = "ok"
    /\ out = NoOut("init")
    /\ steps = 0

Step == steps < MaxSteps /\ steps' = steps + 1

\* The repository, the file system or the encoding of the files changes
\* outside the view.
EnvChange ==
    /\ Step
    /\ env' \in Environments \ {env}
    /\ out' = NoOut("env")
    /\ UNCHANGED <<settings, text, sel, repo, pending, flight>>

(***************************************************************************)
(* The user moves the cursors.                                             *)
(***************************************************************************)
\* The selections the user makes: a cursor in the prelude; a cursor in the
\* "@@" line of a hunk; a range of two characters in the first "@@" line;
\* and several cursors, two of them in the first "@@" line and one in the
\* "@@" line of each other hunk.
CandidateSelections(txt) ==
    LET starts == Range(hunk_starts(txt, LineStarts(txt)))
        first == {q \in starts : \A r \in starts : q <= r}
    IN  {<<<<0, 0>>>>}
        \cup {<<<<p + 1, p + 1>>>> : p \in starts}
        \cup {<<<<p + 1, p + 3>>>> : p \in first}
        \cup {SortedRegions({<<p + 1, p + 1>> : p \in starts}
                            \cup {<<p + 2, p + 2>> : p \in first}) : q \in first}

SetSelection ==
    /\ Step
    /\ \E new_sel \in CandidateSelections(text) : sel' = new_sel
    /\ out' = NoOut("select")
    /\ UNCHANGED <<settings, text, repo, pending, flight, env>>

(***************************************************************************)
(* GsDiffStageOrResetHunkCommand                                           *)
(***************************************************************************)
\* The arguments of git apply if the mode of the view were left out of them.
apply_args_by_reset(reset, in_cached_mode, context_lines) ==
    <<"apply",
      IF reset THEN "-R" ELSE None,
      IF ~reset THEN "--cached" ELSE None,
      IF context_lines = 0 THEN "--unidiff-zero" ELSE None,
      "-">>

\* The arguments of git apply if the number of context lines were left out
\* of them.
apply_args_without_zero(reset, in_cached_mode, context_lines) ==
    <<"apply",
      IF reset \/ in_cached_mode THEN "-R" ELSE None,
      IF in_cached_mode \/ ~reset THEN "--cached" ELSE None,
      None,
      "-">>

\* The arguments of git apply for the action and the mode of the view.
apply_args(reset, in_cached_mode, context_lines) ==
    <<"apply",
      IF reset \/ in_cached_mode THEN "-R" ELSE None,
      IF in_cached_mode \/ ~reset THEN "--cached" ELSE None,
      IF context_lines = 0 THEN "--unidiff-zero" ELSE None,
      "-">>

\* The settings if the entry went under the stack and the hint were kept.
settings_after_apply_below(s, args, patch, pts) ==
    [s EXCEPT !.history = <<<<args, patch, pts, s.in_cached_mode>>>> \o @]

\* The settings after self.git(*args, stdin=patch) returned.
settings_after_apply(s, args, patch, pts) ==
    [s EXCEPT !.history = Append(@, <<args, patch, pts, s.in_cached_mode>>),
              !.just_hunked = patch]

\* The settings if the entry were recorded before the call of git.
settings_after_failed_apply_recorded(s, args, patch, pts) ==
    [s EXCEPT !.history = Append(@, <<args, patch, pts, s.in_cached_mode>>),
              !.just_hunked = patch]

\* The settings after self.git(*args, stdin=patch) raised.
settings_after_failed_apply(s, args, patch, pts) == s

apply_patch(cmd, patch, pts, reset) ==
    LET args == apply_args(reset, settings.in_cached_mode, settings.context_lines)
        call == [args |-> args, stdin |-> patch]
        git == GitApply(repo, args, patch)
    IN  IF ~(git_ok(env) /\ git.ok)
        THEN /\ settings' = settings_after_failed_apply(settings, args, patch, pts)
             /\ out' = [NoOut(cmd) EXCEPT !.calls = <<call>>,
                                          !.raised = "GitSavvyError"]
             /\ UNCHANGED <<text, sel, repo, pending>>
        ELSE LET r == gs_diff_refresh(
                          settings_after_apply(settings, args, patch, pts),
                          text, sel, git.repo, pending, sync_default,
                          git_diff_outcome(env))
             IN  /\ repo' = git.repo
                 /\ settings' = r.settings
                 /\ text' = r.text
                 /\ sel' = r.sel
                 /\ pending' = r.pending
                 /\ out' = [NoOut(cmd) EXCEPT !.calls = <<call>>,
                                              !.refresh = 1,
                                              !.ran = r.ran,
                                              !.refresh_raised = r.raised # ""]

\* A view that refuses only the diff that ignores whitespace.
not_clean_diff_whitespace(s) == s.ignore_whitespace

\* The diff of the view is not a clean diff: it ignores whitespace or shows
\* the words that differ.
not_clean_diff(s) == s.ignore_whitespace \/ s.show_word_diff

StageOrResetHunk ==
    LET pts == cursor_pts(sel)
        diff == parse_diff_in_view(text)
        raises == raises_in(diff, pts)
        patch == patch_of(text, diff, pts)
    IN  /\ Step
        /\ \E reset \in BOOLEAN :
           LET cmd == IF reset THEN "reset" ELSE "stage"
           IN  IF not_clean_diff(settings)
               THEN /\ out' = [NoOut(cmd) EXCEPT
                                  !.msg = "You have to be in a clean diff to stage."]
                    /\ UNCHANGED <<settings, text, sel, repo, pending>>
               ELSE IF raises
               THEN /\ out' = [NoOut(cmd) EXCEPT !.raised = "ValueError"]
                    /\ UNCHANGED <<settings, text, sel, repo, pending>>
               ELSE IF patch # ""
               THEN apply_patch(cmd, patch, pts, reset)
               ELSE /\ out' = [NoOut(cmd) EXCEPT !.msg = "Not within a hunk"]
                    /\ UNCHANGED <<settings, text, sel, repo, pending>>
        /\ UNCHANGED <<flight, env>>

(***************************************************************************)
(* GsDiffUndo                                                              *)
(***************************************************************************)
\* The entry taken if undo took the oldest one.
popped_entry_oldest(history) == Head(history)

\* history.pop(): the entry it returns and the list it leaves.
popped_entry(history) == Last(history)

popped_history(history) == Front(history)

\* args[1] = "-R" if not args[1] else None
toggle_reverse(args) == [args EXCEPT ![2] = IF @ = None THEN "-R" ELSE None]

\* The settings after self.git(*args, stdin=stdin) returned.
settings_after_undo(s, stdin) ==
    [s EXCEPT !.history = popped_history(@), !.just_hunked = stdin]

\* The settings if the pop changed the stored history.
settings_after_failed_undo_popped(s, stdin) ==
    [s EXCEPT !.history = popped_history(@)]

\* The settings after self.git(*args, stdin=stdin) raised: settings().get
\* returned a copy of the history, and the pop changed the copy.
settings_after_failed_undo(s, stdin) == s

\* The settings if the undo of nothing forgot the hint.
settings_after_empty_undo_unhinted(s) == [s EXCEPT !.just_hunked = ""]

\* The settings after the return of "if not history".
settings_after_empty_undo(s) == s

\* The test if the cursors were restored in either mode.
cursor_applicable_always(s, in_cached_mode) == TRUE

\* The cursor is only applicable if we're still in the same cache/stage mode.
cursor_applicable(s, in_cached_mode) == s.in_cached_mode = in_cached_mode

Undo ==
    /\ Step
    /\ IF settings.history = <<>>
       THEN /\ out' = [NoOut("undo") EXCEPT !.msg = "Undo stack is empty"]
            /\ settings' = settings_after_empty_undo(settings)
            /\ UNCHANGED <<text, sel, repo, pending>>
       ELSE LET entry == popped_entry(settings.history)
                args == toggle_reverse(entry[1])
                stdin == entry[2]
                cursors == entry[3]
                in_cached_mode == entry[4]
                call == [args |-> args, stdin |-> stdin]
                git == GitApply(repo, args, stdin)
            IN  IF ~(git_ok(env) /\ git.ok)
                THEN /\ settings' = settings_after_failed_undo(settings, stdin)
                     /\ out' = [NoOut("undo") EXCEPT !.calls = <<call>>,
                                                     !.raised = "GitSavvyError"]
                     /\ UNCHANGED <<text, sel, repo, pending>>
                ELSE LET r == gs_diff_refresh(
                                  settings_after_undo(settings, stdin),
                                  text, sel, git.repo, pending, sync_default,
                                  git_diff_outcome(env))
                     IN  \E propagates \in Propagations(r) :
                         LET restore == ~propagates
                                        /\ cursor_applicable(r.settings, in_cached_mode)
                         IN  /\ repo' = git.repo
                             /\ settings' = r.settings
                             /\ text' = r.text
                             /\ pending' = r.pending
                             /\ sel' = IF restore
                                       THEN set_and_show_cursor(PointRegions(cursors))
                                       ELSE r.sel
                             /\ out' = [NoOut("undo") EXCEPT
                                           !.calls = <<call>>,
                                           !.refresh = 1,
                                           !.ran = r.ran,
                                           !.refresh_raised = r.raised # "",
                                           !.raised = IF propagates THEN r.raised
                                                      ELSE "",
                                           !.set_cursor = restore,
                                           !.cursor = IF restore
                                                      THEN PointRegions(cursors)
                                                      ELSE <<>>]
    /\ UNCHANGED <<flight, env>>

(***************************************************************************)
(* GsDiffToggleSetting                                                     *)
(***************************************************************************)
ToggleSetting ==
    /\ Step
    /\ \E setting \in {"ignore_whitespace", "show_word_diff"} :
        LET next_mode == ~settings[setting]
            r == gs_diff_refresh([settings EXCEPT ![setting] = next_mode],
                                 text, sel, repo, pending, sync_default,
                                 git_diff_outcome(env))
        IN  /\ settings' = r.settings
            /\ text' = r.text
            /\ sel' = r.sel
            /\ pending' = r.pending
            /\ out' = [NoOut("toggle_setting") EXCEPT
                          !.msg = setting \o " is now "
                                  \o (IF next_mode THEN "True" ELSE "False"),
                          !.refresh = 1, !.ran = r.ran,
                          !.refresh_raised = r.raised # ""]
    /\ UNCHANGED <<repo, flight, env>>

(***************************************************************************)
(* GsDiffToggleCachedMode                                                  *)
(***************************************************************************)
\* A flip that stores the target as the base and keeps the target.
flip_commits_once(git_diff) ==
    LET r == gs_diff_refresh(
                 [settings EXCEPT !.base_commit = settings.target_commit],
                 text, sel, repo, pending, sync_default, git_diff)
    IN  /\ settings' = r.settings
        /\ text' = r.text
        /\ sel' = r.sel
        /\ pending' = r.pending
        /\ out' = [NoOut("toggle_cached") EXCEPT
                      !.refresh = 1, !.ran = r.ran,
                      !.refresh_raised = r.raised # ""]

\* The branch that flips base with target.
flip_commits(git_diff) ==
    LET r == gs_diff_refresh(
                 [settings EXCEPT !.base_commit = settings.target_commit,
                                  !.target_commit = settings.base_commit],
                 text, sel, repo, pending, sync_default, git_diff)
    IN  /\ settings' = r.settings
        /\ text' = r.text
        /\ sel' = r.sel
        /\ pending' = r.pending
        /\ out' = [NoOut("toggle_cached") EXCEPT
                      !.refresh = 1, !.ran = r.ran,
                      !.refresh_raised = r.raised # ""]

\* The hint taken whatever the cursors saved before.
consumes_hint_always(just_hunked, last_cursors) == just_hunked # ""

\* `if just_hunked and last_cursors`.
consumes_hint(just_hunked, last_cursors) ==
    just_hunked # "" /\ last_cursors # <<>>

\* The branch that toggles in_cached_mode.
flip_cached_mode(git_diff) ==
    LET last_cursors == settings.last_cursors
        next_mode == ~settings.in_cached_mode
        r == gs_diff_refresh(
                 [settings EXCEPT !.last_cursors = sel,
                                  !.in_cached_mode = next_mode],
                 text, sel, repo, pending, sync_default, git_diff)
        just_hunked == r.settings.just_hunked
    IN  \E propagates \in Propagations(r) :
        LET consume == ~propagates /\ consumes_hint(just_hunked, last_cursors)
            found == IF consume THEN find_hunk_in_view(r.text, just_hunked) ELSE -1
            restore == ~propagates /\ found < 0 /\ last_cursors # <<>>
        IN  /\ settings' = IF consume
                           THEN [r.settings EXCEPT !.just_hunked = ""]
                           ELSE r.settings
            /\ text' = r.text
            /\ pending' = r.pending
            /\ sel' = IF found >= 0 THEN set_and_show_cursor(<<<<found, found>>>>)
                      ELSE IF restore THEN set_and_show_cursor(last_cursors)
                      ELSE r.sel
            /\ out' = [NoOut("toggle_cached") EXCEPT
                          !.msg = IF next_mode THEN "Showing staged changes"
                                  ELSE "Showing unstaged changes",
                          !.refresh = 1, !.ran = r.ran,
                          !.refresh_raised = r.raised # "",
                          !.raised = IF propagates THEN r.raised ELSE "",
                          !.set_cursor = found >= 0 \/ restore,
                          !.cursor = IF found >= 0 THEN <<<<found, found>>>>
                                     ELSE IF restore THEN last_cursors
                                     ELSE <<>>]

ToggleCachedMode ==
    /\ Step
    /\ IF settings.base_commit # None /\ settings.target_commit # None
       THEN flip_commits(git_diff_outcome(env))
       ELSE flip_cached_mode(git_diff_outcome(env))
    /\ UNCHANGED <<repo, flight, env>>

(***************************************************************************)
(* GsDiffZoom                                                              *)
(***************************************************************************)
ZoomAmounts == {-5, 2}

\* The points s.a of the selection.
sel_starts(sl) == [i \in 1..Len(sl) |-> sl[i][1]]

\* extract(header) + extract(hunk) for the hunk of every cursor.
RECURSIVE cur_hunks(_, _, _)
cur_hunks(txt, diff, pts) ==
    IF pts = <<>> THEN <<>>
    ELSE LET hh == head_and_hunk_for_pt(diff, Head(pts))
         IN  (IF hh = NotFound THEN <<>>
              ELSE <<extract_content(txt, hh[1]) \o extract_content(txt, hh[2])>>)
             \o cur_hunks(txt, diff, Tail(pts))

\* region.a of the hunks found in the view for the texts of cur_hunks.
found_cursors(txt, hunks) ==
    {find_hunk_in_view(txt, hunks[i]) : i \in 1..Len(hunks)} \ {-1}

\* The sum without the lower bound.
next_context_lines_sum(current, amount) == current + amount

next_context_lines(current, amount) == Max(current + amount, 0)

Zoom ==
    LET diff == parse_diff_in_view(text)
        pts == sel_starts(sel)
        raises == raises_in(diff, pts)
        hunks == cur_hunks(text, diff, pts)
    IN  /\ Step
        /\ \E amount \in ZoomAmounts :
           LET s1 == [settings EXCEPT !.context_lines =
                         next_context_lines(settings.context_lines, amount)]
           IN  IF raises
               THEN /\ settings' = s1
                    /\ out' = [NoOut("zoom") EXCEPT !.raised = "ValueError"]
                    /\ UNCHANGED <<text, sel, pending>>
               ELSE LET r == gs_diff_refresh(s1, text, sel, repo, pending,
                                             sync_default, git_diff_outcome(env))
                    IN  \E propagates \in Propagations(r) :
                        LET cursors == IF propagates THEN {}
                                       ELSE found_cursors(r.text, hunks)
                            regions == SortedRegions({<<a, a>> : a \in cursors})
                        IN  /\ settings' = r.settings
                            /\ text' = r.text
                            /\ pending' = r.pending
                            /\ sel' = IF cursors # {} THEN set_and_show_cursor(regions)
                                      ELSE r.sel
                            /\ out' = [NoOut("zoom") EXCEPT
                                          !.refresh = 1, !.ran = r.ran,
                                          !.refresh_raised = r.raised # "",
                                          !.raised = IF propagates THEN r.raised
                                                     ELSE "",
                                          !.set_cursor = cursors # {},
                                          !.cursor = regions]
        /\ UNCHANGED <<repo, flight, env>>

(***************************************************************************)
(* GsDiffFocusEventListener and the async thread                           *)
(***************************************************************************)
\* on_activated_async: view.run_command("gs_diff_refresh", {"sync": False})
\* queues _run with sublime.set_timeout_async.
OnActivatedAsync ==
    /\ Step
    /\ settings.diff_view = TRUE
    /\ pending' = gs_diff_refresh(settings, text, sel, repo, pending, FALSE, "ok").pending
    /\ out' = [NoOut("activated") EXCEPT !.refresh = 1]
    /\ UNCHANGED <<settings, text, sel, repo, flight, env>>

\* The async thread takes a queued _run and runs it up to the return of git
\* diff; the UI thread runs its commands meanwhile.
AsyncRunDiff ==
    /\ Step
    /\ pending > 0
    /\ flight.pc = "idle"
    /\ pending' = pending - 1
    /\ flight' = run_diff(settings, repo, git_diff_outcome(env))
    /\ out' = NoOut("async_diff")
    /\ UNCHANGED <<settings, text, sel, repo, env>>

\* git diff returned to the async thread, which goes on with _run.
AsyncRunReplace ==
    /\ Step
    /\ flight.pc = "git"
    /\ LET r == run_replace(settings, text, sel, flight)
       IN  /\ settings' = r.settings
           /\ text' = r.text
           /\ sel' = r.sel
           /\ out' = [NoOut("async_replace") EXCEPT
                         !.ran = 1, !.refresh_raised = r.raised # "",
                         !.raised = r.raised]
    /\ flight' = Idle
    /\ UNCHANGED <<repo, pending, env>>

(***************************************************************************)
(* The specification.                                                      *)
(***************************************************************************)
Next ==
    \/ EnvChange
    \/ SetSelection
    \/ StageOrResetHunk
    \/ Undo
    \/ ToggleSetting
    \/ ToggleCachedMode
    \/ Zoom
    \/ OnActivatedAsync
    \/ AsyncRunDiff
    \/ AsyncRunReplace

Spec == Init /\ [][Next]_vars

(***************************************************************************)
(* GsDiffOpenFileAtHunkCommand.run                                         *)
(***************************************************************************)
\* load_file_at_line: the file shown at the target commit, at the row, or
\* the file opened at the row and the column.
load_file_at_line(s, jp) ==
    IF s.target_commit # None
    THEN [command |-> "gs_show_file_at_commit", commit_hash |-> s.target_commit,
          filepath |-> jp.filename, row |-> jp.row, col |-> 0]
    ELSE [command |-> "open_file", commit_hash |-> None,
          filepath |-> jp.filename, row |-> jp.row, col |-> jp.col]

\* The loop of run over the jump positions of the cursors, which are
\* computed one after the other: the files loaded, and the exception that
\* ended the loop.
RECURSIVE load_files(_, _, _, _, _, _)
load_files(s, txt, diff, pts, seen, opened) ==
    LET next(jp) ==
            IF jp.kind \in {"ValueError", "IndexError"}
            THEN [opened |-> opened, raised |-> jp.kind]
            ELSE IF jp.kind = "None" \/ jp.filename \in seen
            THEN load_files(s, txt, diff, Tail(pts), seen, opened)
            ELSE load_files(s, txt, diff, Tail(pts), seen \cup {jp.filename},
                            Append(opened, load_file_at_line(s, jp)))
    IN  IF pts = <<>> THEN [opened |-> opened, raised |-> ""]
        ELSE CHOOSE loaded \in
                 {next(jp) : jp \in {jump_position_to_file(txt, diff, pts[1])}} : TRUE

OpenFileAtHunk ==
    /\ Step
    /\ \E diff \in {parse_diff_in_view(text)} :
          \E loaded \in {load_files(settings, text, diff, cursor_pts(sel), {}, <<>>)} :
             out' = [NoOut("open_file_at_hunk") EXCEPT !.opened = loaded.opened,
                                                      !.raised = loaded.raised]
    /\ UNCHANGED <<settings, text, sel, repo, pending, flight, env>>

(***************************************************************************)
(* The parser and the patch of a stage on the buffers git diff can print:  *)
(* one or two files, one or two hunks in a file, hunks of equal text in    *)
(* two files, an added line whose text starts with "++", an added line     *)
(* whose text is the "@@" line of a hunk; and on buffers in which the      *)
(* first file has no "diff" line.                                          *)
(***************************************************************************)
\* A hunk that ends with the added line "++i".
HunkPlusPlus == "@@ -4 +4,2 @@\n w\n+++i\n"

\* The hunks of a file, in the order of their lines.
HunkLists ==
    {<<HunkText(1, 3, FALSE)>>,
     <<HunkText(1, 3, FALSE), HunkText(2, 3, FALSE)>>,
     <<HunkPlusPlus, HunkText(2, 3, FALSE)>>}

FileSection(f, hs) == FileHeader(f) \o join(hs)

\* The settings of the view that shows the buffers: the diff of the working
\* tree, without the output of --stat.
BufferSettings(diff) ==
    [NewSettings(FALSE, None, None, FALSE) EXCEPT !.show_diffstat = FALSE,
                                                  !.raw_diff = diff]

BufferOf(diff) == prelude_of(BufferSettings(diff)) \o "\n--\n" \o diff

DiffsOf(lists) ==
    {FileSection("a", hs) : hs \in lists}
    \cup {FileSection("a", hs) \o FileSection("b", gs) : hs \in lists, gs \in lists}

\* The unified diffs: every file has its header and its hunks.
WellFormedDiffs == DiffsOf(HunkLists)

\* The diffs an external diff program prints for file a: the "---" and "+++"
\* lines and the hunk, without a "diff" line.
MalformedDiffs ==
    {"--- a/a\n+++ b/a\n" \o HunkText(1, 3, FALSE),
     "--- a/a\n+++ b/a\n" \o HunkText(1, 3, FALSE)
        \o FileSection("b", <<HunkText(1, 3, FALSE)>>)}

\* An added line of file a is the "@@" line of the hunk of file b: file a
\* holds a patch of file b.
HunkOfPatchFile == "@@ -2 +2,2 @@\n k\n+@@ -1 +1,2 @@\n"

\* The diffs of a repository that holds a patch file.
PatchFileDiffs ==
    {FileSection("a", <<HunkOfPatchFile>>) \o FileSection("b", <<HunkText(1, 3, FALSE)>>)}

InitBuffer ==
    /\ \E diff \in WellFormedDiffs \cup MalformedDiffs \cup PatchFileDiffs :
          /\ settings = BufferSettings(diff)
          /\ text = BufferOf(diff)
    /\ sel = <<<<0, 0>>>>
    /\ repo = [h \in Hunks |-> "wt"]
    /\ pending = 0
    /\ flight = Idle
    /\ env = "ok"
    /\ out = NoOut("init")
    /\ steps = 0

\* The selections the user makes in these buffers: those of
\* CandidateSelections; a cursor in the first line of the diff or in the
\* first line of a file header; the former and a range in a hunk; two
\* cursors in one hunk.
BufferSelections(txt) ==
    LET starts == Range(hunk_starts(txt, LineStarts(txt)))
        diff_start == FindLiteral(txt, "\n--\n") + 4
    IN  CandidateSelections(txt)
        \cup {<<<<diff_start + 1, diff_start + 1>>>>}
        \cup {<<<<p + 1, p + 1>>>> : p \in Range(header_starts(txt, LineStarts(txt)))}
        \cup {SortedRegions({<<diff_start + 1, diff_start + 1>>, <<p + 1, p + 3>>}) :
                 p \in starts}
        \cup {<<<<p + 1, p + 1>>, <<p + 2, p + 2>>>> : p \in starts}

SelectInBuffer ==
    /\ Step
    /\ \E new_sel \in BufferSelections(text) : sel' = new_sel
    /\ out' = NoOut("select")
    /\ UNCHANGED <<settings, text, repo, pending, flight, env>>

BufferNext ==
    \/ SelectInBuffer
    \/ StageOrResetHunk
    \/ Zoom

BufferSpec == InitBuffer /\ [][BufferNext]_vars

(***************************************************************************)
(* The jump to the file on the hunks git diff can print: a deleted line    *)
(* before a context line of the same or of another indentation, before an  *)
(* added line, and at the end of the hunk; a file whose lines are all      *)
(* deleted; a blank context line printed as an empty line                  *)
(* (diff.suppressBlankEmpty) and one at the end of a hunk.                 *)
(***************************************************************************)
HunkDeletedBeforeContext == "@@ -1,3 +1,4 @@\n line1\n+line2\n-line3\n line4\n"

HunkDeletedBeforeIndented == "@@ -2,2 +2,2 @@\n-a\n  b\n+c\n"

HunkAllDeleted == "@@ -1,2 +0,0 @@\n-a\n-b\n"

HunkDeletedIndented == "@@ -3,2 +3 @@\n-  p\n   q\n"

HunkBlankEmpty == "@@ -1,2 +1,3 @@\n x\n\n+y\n"

HunkBlankLast == "@@ -5,2 +5,3 @@\n+y\n x\n \n"

MapperHunkLists ==
    {<<HunkDeletedBeforeContext>>, <<HunkDeletedBeforeIndented>>,
     <<HunkAllDeleted>>, <<HunkDeletedIndented>>, <<HunkBlankEmpty>>,
     <<HunkBlankLast>>, <<HunkText(2, 3, FALSE)>>,
     <<HunkBlankLast, HunkText(2, 3, FALSE)>>}

MapperDiffs ==
    {FileSection("a", hs) : hs \in MapperHunkLists}
    \cup {FileSection("a", <<HunkText(2, 3, FALSE)>>)
          \o FileSection("b", <<HunkDeletedBeforeContext>>)}

\* The settings of the views that show these diffs: the diff of the working
\* tree, or the diff to a commit.
MapperSettings(diff, target_commit) ==
    [NewSettings(FALSE, None, target_commit, FALSE) EXCEPT !.show_diffstat = FALSE,
                                                           !.raw_diff = diff]

InitMapper ==
    /\ \E diff \in MapperDiffs, target_commit \in {None, "c1"} :
          /\ settings = MapperSettings(diff, target_commit)
          /\ text = prelude_of(settings) \o "\n--\n" \o diff
    /\ sel = <<<<0, 0>>>>
    /\ repo = [h \in Hunks |-> "wt"]
    /\ pending = 0
    /\ flight = Idle
    /\ env = "ok"
    /\ out = NoOut("init")
    /\ steps = 0

\* The selections the user makes in these buffers: a cursor at the start of
\* the buffer, at its end, on the first and on the third character of every
\* line of the diff; two cursors on lines of the diff.
MapperSelections(txt) ==
    LET diff_start == FindLiteral(txt, "\n--\n") + 4
        lines == {p \in LineStarts(txt) : p >= diff_start}
        pts == lines \cup {p + 2 : p \in {q \in lines : q + 2 < LineEnd(txt, q)}}
               \cup {0, Len(txt)}
        starts == Range(hunk_starts(txt, LineStarts(txt)))
    IN  {<<<<p, p>>>> : p \in pts}
        \cup {<<<<pq[1], pq[1]>>, <<pq[2], pq[2]>>>> :
                 pq \in {r \in starts \X lines : r[1] < r[2]}}

SelectInMapper ==
    /\ Step
    /\ \E new_sel \in MapperSelections(text) : sel' = new_sel
    /\ out' = NoOut("select")
    /\ UNCHANGED <<settings, text, repo, pending, flight, env>>

MapperNext ==
    \/ SelectInMapper
    \/ OpenFileAtHunk

MapperSpec == InitMapper /\ [][MapperNext]_vars

TypeOK ==
    /\ pending \in 0..(MaxSteps + 1)
    /\ env \in Environments
    /\ flight.pc \in {"idle", "git"}
    /\ \A h \in Hunks : repo[h] \in {"wt", "idx", "none"}
    /\ settings.context_lines \in Nat
    /\ steps \in 0..MaxSteps
    /\ Len(settings.history) <= MaxSteps

(***************************************************************************)
(* The properties of the diff view.                                        *)
(***************************************************************************)

\* C1: for a non-empty patch in a clean diff, stage in the unstaged view
\* issues exactly one call of git apply, not reversed and with --cached (the
\* index only); reset in the unstaged view issues one reversed call without
\* --cached; reset in the cached view issues one reversed call with --cached.
C1_ApplyArguments ==
    [][LET patch == patch_of(text, parse_diff_in_view(text), cursor_pts(sel))
           clean == ~(settings.ignore_whitespace \/ settings.show_word_diff)
           cached == settings.in_cached_mode
           reverse == out'.calls[1].args[2] = "-R"
           index_only == out'.calls[1].args[3] = "--cached"
       IN  (out'.cmd \in {"stage", "reset"} /\ clean /\ patch # "")
           => /\ Len(out'.calls) = 1
              /\ out'.calls[1].stdin = patch
              /\ out'.calls[1].args[1] = "apply"
              /\ (out'.cmd = "stage" /\ ~cached) => (~reverse /\ index_only)
              /\ (out'.cmd = "reset" /\ ~cached) => (reverse /\ ~index_only)
              /\ (out'.cmd = "reset" /\ cached) => (reverse /\ index_only)
      ]_vars

\* A hunk was staged in the unstaged view, and then another was discarded in
\* it.
C1_Witness ==
    /\ out.cmd = "reset"
    /\ ~settings.in_cached_mode
    /\ out.calls = <<[args |-> <<"apply", "-R", None, None, "-">>,
                     stdin |-> settings.just_hunked]>>
    /\ Len(settings.history) = 2
    /\ settings.history[1][1] = <<"apply", None, "--cached", None, "-">>
    /\ settings.history[2][1] = out.calls[1].args

\* C2, as stated: in the cached view the stage action with reset=false does
\* nothing: no call of git apply, no undo entry, the repository and the view
\* as they were.
C2_NoActionInCachedMode ==
    [][(out'.cmd = "stage" /\ settings.in_cached_mode)
       => /\ out'.calls = <<>>
          /\ settings'.history = settings.history
          /\ repo' = repo
          /\ text' = text
      ]_vars

\* C2, amended: in the cached view the stage action with reset=false on a
\* non-empty patch in a clean diff issues exactly one reversed call of git
\* apply with --cached, the call of reset=true: it unstages the hunk, and
\* when the call succeeds it pushes an undo entry and takes the hunk out of
\* the index.
C2_UnstageInCachedMode ==
    [][LET patch == patch_of(text, parse_diff_in_view(text), cursor_pts(sel))
           clean == ~(settings.ignore_whitespace \/ settings.show_word_diff)
           args == <<"apply", "-R", "--cached",
                     IF settings.context_lines = 0 THEN "--unidiff-zero" ELSE None,
                     "-">>
       IN  (out'.cmd = "stage" /\ settings.in_cached_mode /\ clean /\ patch # "")
           => /\ out'.calls = <<[args |-> args, stdin |-> patch]>>
              /\ out'.raised = ""
                 => /\ Len(settings'.history) = Len(settings.history) + 1
                    /\ \E h \in Hunks : repo[h] = "idx" /\ repo'[h] = "wt"
      ]_vars

\* The stage action unstaged a hunk in the cached view.
C2_Witness ==
    /\ out.cmd = "stage"
    /\ settings.in_cached_mode
    /\ Len(out.calls) = 1
    /\ out.calls[1].args[2] = "-R"
    /\ out.raised = ""
    /\ settings.history # <<>>
    /\ \E h \in Hunks : repo[h] = "wt"

\* C3: when the call of git apply of a stage or reset fails, the undo stack
\* and the just-hunked hint are as before the command and no refresh is
\* asked for or queued; the stack grows in a stage or reset only by the
\* entry of a call that succeeded.
C3_FailedApplyRecordsNothing ==
    [][(out'.cmd \in {"stage", "reset"})
       => LET call == out'.calls[1]
              failed == /\ out'.calls # <<>>
                        /\ ~(git_ok(env) /\ GitApply(repo, call.args, call.stdin).ok)
          IN  /\ failed => /\ settings'.history = settings.history
                           /\ settings'.just_hunked = settings.just_hunked
                           /\ out'.refresh = 0
                           /\ out'.ran = 0
                           /\ pending' = pending
                           /\ text' = text
                           /\ repo' = repo
                           /\ out'.raised = "GitSavvyError"
              /\ settings'.history # settings.history
                 => /\ out'.calls # <<>>
                    /\ ~failed
                    /\ Len(settings'.history) = Len(settings.history) + 1
      ]_vars

\* The call of git apply of a stage or reset failed in a view whose undo
\* stack and hint hold an earlier apply.
C3_Witness ==
    /\ out.cmd \in {"stage", "reset"}
    /\ out.calls # <<>>
    /\ out.raised = "GitSavvyError"
    /\ out.refresh = 0
    /\ settings.history # <<>>
    /\ settings.just_hunked # ""
    /\ settings.just_hunked # out.calls[1].stdin

\* C4: after the call of git apply of a stage or reset succeeded, the undo
\* stack is the stack of before with one entry appended on top, made of the
\* arguments of the call, the patch, the zero-width cursors and the cached
\* mode of the view; the just-hunked hint is the patch; and one refresh was
\* asked for.
C4_SuccessfulApplyRecorded ==
    [][(out'.cmd \in {"stage", "reset"} /\ out'.calls # <<>>)
       => LET call == out'.calls[1]
              patch == patch_of(text, parse_diff_in_view(text), cursor_pts(sel))
              entry == <<call.args, patch, cursor_pts(sel), settings.in_cached_mode>>
          IN  (git_ok(env) /\ GitApply(repo, call.args, call.stdin).ok)
              => /\ settings'.history = settings.history \o <<entry>>
                 /\ settings'.just_hunked = patch
                 /\ call.stdin = patch
                 /\ out'.refresh = 1
      ]_vars

\* A second apply succeeded: its entry is on top of the entry of the first.
C4_Witness ==
    /\ out.cmd \in {"stage", "reset"}
    /\ out.refresh = 1
    /\ Len(settings.history) = 2
    /\ settings.history[2][1] = out.calls[1].args
    /\ settings.history[2][2] = settings.just_hunked
    /\ settings.history[1][2] # settings.history[2][2]
    /\ Len(settings.history[2][3]) = 1

\* C5: an undo on a non-empty stack issues exactly one call of git apply,
\* with the patch of the top entry and the arguments of the top entry in
\* which only the reverse flag is flipped; when the call succeeds the stack
\* is the stack of before without its top entry, and otherwise it is the
\* stack of before: undo takes the entries last in, first out and pushes
\* nothing.
C5_UndoLastInFirstOut ==
    [][(out'.cmd = "undo" /\ settings.history # <<>>)
       => LET n == Len(settings.history)
              top == settings.history[n]
              call == out'.calls[1]
          IN  /\ Len(out'.calls) = 1
              /\ call.stdin = top[2]
              /\ Len(call.args) = Len(top[1])
              /\ \A i \in {1, 3, 4, 5} : call.args[i] = top[1][i]
              /\ call.args[2] = (IF top[1][2] = "-R" THEN None ELSE "-R")
              /\ IF git_ok(env) /\ GitApply(repo, call.args, call.stdin).ok
                 THEN settings'.history = SubSeq(settings.history, 1, n - 1)
                 ELSE settings'.history = settings.history
      ]_vars

\* Two applies succeeded and an undo took the second: the entry of the first
\* is what is left.
C5_Witness ==
    /\ out.cmd = "undo"
    /\ out.refresh = 1
    /\ Len(settings.history) = 1
    /\ out.calls[1].stdin = settings.just_hunked
    /\ out.calls[1].stdin # settings.history[1][2]

\* C6: after an undo applied and went on after its refresh, the selection
\* is set to the cursors of the undone entry if and only if the cached mode
\* of the view is the cached mode of the entry; when the modes differ the
\* selection is the one the refresh left.
C6_UndoRestoresCursors ==
    [][(out'.cmd = "undo" /\ out'.refresh = 1 /\ out'.raised = "")
       => LET top == settings.history[Len(settings.history)]
              refreshed == gs_diff_refresh(
                               [settings EXCEPT !.history = settings'.history,
                                                !.just_hunked = top[2]],
                               text, sel, repo', pending, TRUE,
                               git_diff_outcome(env))
          IN  /\ out'.set_cursor <=> (settings'.in_cached_mode = top[4])
              /\ out'.set_cursor
                 => /\ out'.cursor = [i \in 1..Len(top[3]) |-> <<top[3][i], top[3][i]>>]
                    /\ Range(sel') = {<<top[3][i], top[3][i]>> : i \in 1..Len(top[3])}
              /\ ~out'.set_cursor
                 => /\ out'.cursor = <<>>
                    /\ sel' = refreshed.sel
      ]_vars

\* An undo applied in a view whose cached mode is not the one of the entry,
\* and left the selection where the cursors of the entry are not.
C6_Witness ==
    /\ out.cmd = "undo"
    /\ out.refresh = 1
    /\ out.raised = ""
    /\ ~out.set_cursor
    /\ settings.in_cached_mode
    /\ settings.just_hunked # ""

\* C7: an undo on an empty stack shows a status message and ends without an
\* exception; there is no call of git apply and no refresh, and the settings
\* (the stack and the hint among them), the selection, the buffer and the
\* repository are unchanged.
C7_UndoOnEmptyStack ==
    [][(out'.cmd = "undo" /\ settings.history = <<>>)
       => /\ out'.msg = "Undo stack is empty"
          /\ out'.raised = ""
          /\ out'.calls = <<>>
          /\ out'.refresh = 0
          /\ out'.ran = 0
          /\ ~out'.set_cursor
          /\ UNCHANGED <<settings, text, sel, repo, pending, flight>>
      ]_vars

\* An undo found the stack empty in a view that holds the hint of an
\* earlier apply.
C7_Witness ==
    /\ out.cmd = "undo"
    /\ out.msg = "Undo stack is empty"
    /\ settings.history = <<>>
    /\ settings.just_hunked # ""

\* C8: when the call of git apply of an undo fails, the settings are
\* unchanged: the entry is still on top of the stored stack with its reverse
\* flag, the hint is the one of before; no refresh is asked for, and buffer,
\* selection and repository are unchanged.
C8_FailedUndoChangesNothing ==
    [][(out'.cmd = "undo" /\ settings.history # <<>>)
       => LET call == out'.calls[1]
          IN  ~(git_ok(env) /\ GitApply(repo, call.args, call.stdin).ok)
              => /\ settings'.history = settings.history
                 /\ settings'.just_hunked = settings.just_hunked
                 /\ settings' = settings
                 /\ out'.refresh = 0
                 /\ out'.ran = 0
                 /\ ~out'.set_cursor
                 /\ out'.raised = "GitSavvyError"
                 /\ UNCHANGED <<text, sel, repo, pending>>
      ]_vars

\* The call of git apply of an undo failed: its entry is on top of the
\* stack, with the reverse flag the call had flipped.
C8_Witness ==
    /\ out.cmd = "undo"
    /\ out.raised = "GitSavvyError"
    /\ Len(out.calls) = 1
    /\ settings.history # <<>>
    /\ settings.history[Len(settings.history)][2] = out.calls[1].stdin
    /\ settings.history[Len(settings.history)][1][2] # out.calls[1].args[2]

\* C9: the refresh queued when the view gets the focus does not interleave
\* with a stage, reset or undo: when its _run replaces the buffer with the
\* diff it computed, no apply has changed the repository since git diff
\* read it.
C9_FocusRefreshNeverInterleaves ==
    [][(out'.cmd = "async_replace" /\ flight.kind = "ok")
       => flight.repo = repo
      ]_vars

C11_DisabledDiffIsSticky ==
    [][settings.disable_diff
       => /\ settings'.disable_diff
          /\ out'.cmd = "async_diff" => flight'.kind = "disabled" /\ flight'.diff = ""
          /\ (out'.cmd # "async_replace" \/ flight.kind = "disabled")
             => /\ text' = text
                /\ settings'.raw_diff = settings.raw_diff
                /\ ~out'.refresh_raised
      ]_vars

\* With the flag set, a second toggle asked for a refresh whose _run ran and
\* left the buffer at the diff of before the two toggles.
C11_Witness ==
    /\ settings.disable_diff
    /\ out.cmd = "toggle_setting"
    /\ out.refresh = 1
    /\ out.ran = 1
    /\ settings.ignore_whitespace
    /\ settings.show_word_diff
    /\ settings.raw_diff # GitDiff(repo, settings)
    /\ settings.raw_diff = GitDiff(repo, [settings EXCEPT !.ignore_whitespace = FALSE,
                                                           !.show_word_diff = FALSE])

\* C12: a _run whose git diff fails sets git_savvy.disable_diff if and only
\* if the failure is a decode failure; then it ends without raising and
\* without replacing the buffer; on another failure it raises, leaves the
\* flag unset and does not replace the buffer; and nothing else sets the
\* flag.
C12_OnlyDecodeFailureDisables ==
    [][LET ran == out'.ran = 1
           kind == IF out'.cmd = "async_replace" THEN flight.kind
                   ELSE git_diff_outcome(env)
       IN  ~settings.disable_diff
           => /\ settings'.disable_diff <=> (ran /\ kind = "decode")
              /\ (ran /\ kind = "decode")
                 => /\ ~out'.refresh_raised
                    /\ text' = text
                    /\ settings'.raw_diff = settings.raw_diff
              /\ (ran /\ kind = "error")
                 => /\ out'.refresh_raised
                    /\ text' = text
                    /\ settings'.raw_diff = settings.raw_diff
              /\ (ran /\ kind = "ok") => ~out'.refresh_raised
      ]_vars

\* A refresh failed with an error that is not a decode failure: it raised,
\* the flag is unset and the buffer is the one of before the toggle.
C12_Witness ==
    /\ out.cmd = "toggle_setting"
    /\ out.ran = 1
    /\ out.refresh_raised
    /\ ~settings.disable_diff
    /\ settings.ignore_whitespace
    /\ settings.raw_diff = GitDiff(repo, [settings EXCEPT !.ignore_whitespace = FALSE])
    /\ settings.raw_diff # GitDiff(repo, settings)

\* C13: in a buffer in which a "diff" line precedes every "@@" line, the
\* parsed headers and the parsed hunks are each sorted by start and do not
\* overlap within their own kind, there is one hunk span for every "@@"
\* line and one header span, from the "diff" line through the "+++" line,
\* for every "diff" line, and every hunk lies in the section of exactly one
\* header.
C13_ParsedDiffWellFormed ==
    LET starts == LineStarts(text)
        diffs == {p \in starts : StartsWithAt(text, p, "diff")}
        ats == {p \in starts : StartsWithAt(text, p, "@@")}
        d == parse_diff_in_view(text)
        least(S) == CHOOSE x \in S : \A y \in S : x <= y
        plus_lines(s) == {p \in starts : p > s /\ StartsWithAt(text, p, "+++")}
        section_end(s) == least({p \in diffs : p > s} \cup {Len(text) + 1})
    IN  (\A a \in ats : \E s \in diffs : s < a)
        => /\ \A i \in DOMAIN d.headers :
                /\ d.headers[i][1] < d.headers[i][2]
                /\ \A j \in DOMAIN d.headers : i < j => d.headers[i][2] <= d.headers[j][1]
           /\ \A i \in DOMAIN d.hunks :
                /\ d.hunks[i][1] < d.hunks[i][2]
                /\ \A j \in DOMAIN d.hunks : i < j => d.hunks[i][2] <= d.hunks[j][1]
           /\ Len(d.hunks) = Cardinality(ats)
           /\ {d.hunks[i][1] : i \in DOMAIN d.hunks} = ats
           /\ Len(d.headers) = Cardinality(diffs)
           /\ \A i \in DOMAIN d.headers :
                /\ d.headers[i][1] \in diffs
                /\ plus_lines(d.headers[i][1]) # {}
                /\ d.headers[i][2] = LineEnd(text, least(plus_lines(d.headers[i][1])))
           /\ \A i \in DOMAIN d.hunks :
                Cardinality({j \in DOMAIN d.headers :
                               /\ d.headers[j][2] <= d.hunks[i][1]
                               /\ d.hunks[i][2] <= section_end(d.headers[j][1])}) = 1

\* C15: in a buffer in which a "diff" line precedes every "@@" line, every
\* parsed hunk starts at a "@@" line and ends at the nearest boundary after
\* its start: the next "@@" line, the next "diff" line, or the length of the
\* buffer plus one.
C15_HunkEndsAtNearestBoundary ==
    LET starts == LineStarts(text)
        diffs == {p \in starts : StartsWithAt(text, p, "diff")}
        ats == {p \in starts : StartsWithAt(text, p, "@@")}
        d == parse_diff_in_view(text)
        least(S) == CHOOSE x \in S : \A y \in S : x <= y
    IN  (\A a \in ats : \E s \in diffs : s < a)
        => /\ Len(d.hunks) = Cardinality(ats)
           /\ \A i \in DOMAIN d.hunks :
                /\ d.hunks[i][1] \in ats
                /\ d.hunks[i][2] =
                     least({p \in ats \cup diffs : p > d.hunks[i][1]} \cup {Len(text) + 1})

\* C14: for every offset of the buffer, head_and_hunk_for_pt returns "not
\* found" when no parsed hunk span [start, end) holds the offset; when one
\* does and a header starts before it, it returns the first such span and
\* the parsed header with the greatest start before that span.  Where the
\* spans are those of C13, offsets before the first "@@" line and in the
\* lines of a file header are not found, and the header returned starts at
\* the last "diff" line before the offset.
C14_HeadAndHunkForPt ==
    LET starts == LineStarts(text)
        diffs == {p \in starts : StartsWithAt(text, p, "diff")}
        ats == {p \in starts : StartsWithAt(text, p, "@@")}
        d == parse_diff_in_view(text)
        holds(i, pt) == d.hunks[i][1] <= pt /\ pt < d.hunks[i][2]
        spans_right == (\A a \in ats : \E s \in diffs : s < a) /\ C13_ParsedDiffWellFormed
    IN  \A pt \in 0..(Len(text) + 1) :
          LET r == head_and_hunk_for_pt(d, pt)
              inside == {i \in DOMAIN d.hunks : holds(i, pt)}
          IN  /\ inside = {} => r = NotFound
              /\ \A i \in inside :
                   (\E h \in Range(d.headers) : h[1] < d.hunks[i][1])
                   => /\ Len(r) = 2
                      /\ \E j \in inside : r[2] = d.hunks[j] /\ \A k \in inside : j <= k
                      /\ r[1] \in Range(d.headers)
                      /\ r[1][1] < r[2][1]
                      /\ \A h \in Range(d.headers) : h[1] < r[2][1] => h[1] <= r[1][1]
              /\ spans_right
                 => /\ (\A a \in ats : pt < a) => r = NotFound
                    /\ (\E h \in Range(d.headers) : h[1] <= pt /\ pt < h[2])
                       => r = NotFound
                    /\ r # NotFound
                       => /\ r[2][1] <= pt
                          /\ r[1][1] \in diffs
                          /\ \A s \in diffs : s <= pt => s <= r[1][1]

\* A stage with the cursor in the hunk of the second of two files has sent
\* that file's header and its hunk.
C14_Witness ==
    /\ out.cmd = "stage"
    /\ Len(out.calls) = 1
    /\ out.calls[1].stdin = FileSection("b", <<HunkText(1, 3, FALSE)>>)
    /\ Contains(text, FileHeader("a"))

\* C16: for an offset in a parsed hunk span that no parsed header precedes,
\* head_and_hunk_for_pt raises; a stage or reset on a clean diff with a
\* cursor at such an offset ends with that exception: no call of git, no
\* message, no refresh, and settings (undo history, just_hunked), buffer,
\* selection and repository as before.
C16_HunkWithoutHeaderRaises ==
    [][LET d == parse_diff_in_view(text)
           headerless(pt) ==
               \E i \in DOMAIN d.hunks :
                  /\ d.hunks[i][1] <= pt /\ pt < d.hunks[i][2]
                  /\ \A h \in Range(d.headers) : h[1] > d.hunks[i][1]
       IN  /\ \A pt \in 0..Len(text) :
                headerless(pt) => head_and_hunk_for_pt(d, pt) = Raised
           /\ ( /\ out'.cmd \in {"stage", "reset"}
                /\ ~settings.ignore_whitespace /\ ~settings.show_word_diff
                /\ \E i \in DOMAIN sel : sel[i][1] = sel[i][2] /\ headerless(sel[i][1]) )
              => /\ out'.raised = "ValueError"
                 /\ out'.calls = <<>>
                 /\ out'.msg = ""
                 /\ out'.refresh = 0
                 /\ UNCHANGED <<settings, text, sel, repo, pending>>
      ]_vars

\* A stage with cursors in a hunk without a header and in a hunk of a file
\* has raised.
C16_Witness ==
    /\ out.cmd = "stage"
    /\ out.raised = "ValueError"
    /\ out.calls = <<>>
    /\ Len(sel) > 1
    /\ settings.history = <<>>
    /\ Contains(text, FileHeader("b"))
    /\ ~Contains(text, FileHeader("a"))

\* C17: in a buffer in which a "diff" line precedes every "@@" line, a stage
\* or reset on a clean diff with zero-width cursors in hunks sends a patch in
\* which the text of every hunk with a cursor in it occurs once for that
\* hunk, and the text of the header of its file once, however many cursors
\* lie in the hunk or the file.  A hunk runs from its "@@" line to the next
\* "@@" or "diff" line or the end of the buffer, a header from its "diff"
\* line through its "+++" line.
C17_EachSpanOnce ==
    [][LET starts == LineStarts(text)
           diffs == {p \in starts : StartsWithAt(text, p, "diff")}
           ats == {p \in starts : StartsWithAt(text, p, "@@")}
           least(S) == CHOOSE x \in S : \A y \in S : x <= y
           greatest(S) == CHOOSE x \in S : \A y \in S : x >= y
           hunk_of(a) == <<a, least({p \in ats \cup diffs : p > a} \cup {Len(text) + 1})>>
           header_of(a) ==
               LET s == greatest({p \in diffs : p < a})
               IN  <<s, LineEnd(text, least({p \in starts :
                                               p > s /\ StartsWithAt(text, p, "+++")}))>>
           pts == {sel[i][1] : i \in {j \in DOMAIN sel : sel[j][1] = sel[j][2]}}
           hit == {a \in ats : \E pt \in pts : a <= pt /\ pt < hunk_of(a)[2]}
           spans == {hunk_of(a) : a \in hit} \cup {header_of(a) : a \in hit}
           patch == out'.calls[1].stdin
           count(lit) ==
               Cardinality({p \in 0..(Len(patch) - Len(lit)) :
                               SubSeq(patch, p + 1, p + Len(lit)) = lit})
           same_text(x) ==
               {y \in spans : extract_content(text, y) = extract_content(text, x)}
       IN  ( /\ out'.cmd \in {"stage", "reset"}
             /\ ~settings.ignore_whitespace /\ ~settings.show_word_diff
             /\ \A a \in ats : \E s \in diffs : s < a
             /\ hit # {} )
           => /\ Len(out'.calls) = 1
              /\ \A x \in spans :
                   count(extract_content(text, x)) = Cardinality(same_text(x))
      ]_vars

\* C18: in a buffer in which a "diff" line precedes every "@@" line, in the
\* patch of a stage or reset the text of every hunk with a cursor in it
\* stands after the text of the header of its file with no "diff" line in
\* between, and the hunks with a cursor in them stand in the order they
\* have in the buffer.
C18_PatchInBufferOrder ==
    [][LET starts == LineStarts(text)
           diffs == {p \in starts : StartsWithAt(text, p, "diff")}
           ats == {p \in starts : StartsWithAt(text, p, "@@")}
           least(S) == CHOOSE x \in S : \A y \in S : x <= y
           greatest(S) == CHOOSE x \in S : \A y \in S : x >= y
           hunk_of(a) == <<a, least({p \in ats \cup diffs : p > a} \cup {Len(text) + 1})>>
           header_of(a) ==
               LET s == greatest({p \in diffs : p < a})
               IN  <<s, LineEnd(text, least({p \in starts :
                                               p > s /\ StartsWithAt(text, p, "+++")}))>>
           pts == {sel[i][1] : i \in {j \in DOMAIN sel : sel[j][1] = sel[j][2]}}
           hit == {a \in ats : \E pt \in pts : a <= pt /\ pt < hunk_of(a)[2]}
           patch == out'.calls[1].stdin
           pos(lit) == {p \in 0..(Len(patch) - Len(lit)) :
                           SubSeq(patch, p + 1, p + Len(lit)) = lit}
       IN  ( /\ out'.cmd \in {"stage", "reset"}
             /\ ~settings.ignore_whitespace /\ ~settings.show_word_diff
             /\ \A a \in ats : \E s \in diffs : s < a
             /\ hit # {} )
           => /\ Len(out'.calls) = 1
              /\ \A a \in hit :
                   \E p \in pos(extract_content(text, header_of(a))),
                      q \in pos(extract_content(text, hunk_of(a))) :
                      /\ p < q
                      /\ \A r \in (p + 1)..q : ~StartsWithAt(patch, r, "diff")
              /\ \A a, b \in hit :
                   a < b => \E p \in pos(extract_content(text, hunk_of(a))),
                               q \in pos(extract_content(text, hunk_of(b))) : p < q
      ]_vars

\* C19 as stated: the text of every selected span occurs once in the patch of
\* a stage or reset, also when two selected hunks have the same text.
C19_DedupByText ==
    [][LET d == parse_diff_in_view(text)
           pts == {sel[i][1] : i \in {j \in DOMAIN sel : sel[j][1] = sel[j][2]}}
           found == {head_and_hunk_for_pt(d, pt) : pt \in pts} \ {NotFound}
           spans == {r[1] : r \in found} \cup {r[2] : r \in found}
           patch == out'.calls[1].stdin
           count(lit) ==
               Cardinality({p \in 0..(Len(patch) - Len(lit)) :
                               SubSeq(patch, p + 1, p + Len(lit)) = lit})
       IN  ( /\ out'.cmd \in {"stage", "reset"}
             /\ ~settings.ignore_whitespace /\ ~settings.show_word_diff
             /\ Raised \notin found
             /\ found # {} )
           => /\ Len(out'.calls) = 1
              /\ \A x \in spans : count(extract_content(text, x)) = 1
      ]_vars

\* C19 amended: the selected spans are de-duplicated by their offsets; where
\* the parsed spans are those of C13, the text of a selected span occurs in
\* the patch once for every selected span that has this text, so twice when
\* two selected hunks have the same text.
C19_DedupBySpan ==
    [][LET d == parse_diff_in_view(text)
           pts == {sel[i][1] : i \in {j \in DOMAIN sel : sel[j][1] = sel[j][2]}}
           found == {head_and_hunk_for_pt(d, pt) : pt \in pts} \ {NotFound}
           spans == {r[1] : r \in found} \cup {r[2] : r \in found}
           patch == out'.calls[1].stdin
           count(lit) ==
               Cardinality({p \in 0..(Len(patch) - Len(lit)) :
                               SubSeq(patch, p + 1, p + Len(lit)) = lit})
           same_text(x) ==
               {y \in spans : extract_content(text, y) = extract_content(text, x)}
       IN  ( /\ out'.cmd \in {"stage", "reset"}
             /\ ~settings.ignore_whitespace /\ ~settings.show_word_diff
             /\ Raised \notin found
             /\ found # {}
             /\ C13_ParsedDiffWellFormed )
           => /\ Len(out'.calls) = 1
              /\ \A x \in spans :
                   count(extract_content(text, x)) = Cardinality(same_text(x))
      ]_vars

\* A stage with cursors in the hunks of two files, which have the same text,
\* has sent that text twice, each time after the header of its file.
C19_Witness ==
    /\ out.cmd = "stage"
    /\ Len(out.calls) = 1
    /\ out.calls[1].stdin =
         FileSection("a", <<HunkText(1, 3, FALSE)>>)
         \o FileSection("b", <<HunkText(1, 3, FALSE)>>)

\* C20: a stage or reset on a clean diff in which no zero-width cursor lies
\* in a parsed hunk span [start, end), the cursors being in the prelude or
\* in header lines or the selections being ranges, shows the message "Not
\* within a hunk" and does nothing else: no call of git, no refresh, no
\* exception, and settings (undo history, just_hunked), buffer, selection
\* and repository as before.
C20_NotWithinAHunk ==
    [][LET d == parse_diff_in_view(text)
           in_hunk(pt) ==
               \E k \in DOMAIN d.hunks : d.hunks[k][1] <= pt /\ pt < d.hunks[k][2]
       IN  ( /\ out'.cmd \in {"stage", "reset"}
             /\ ~settings.ignore_whitespace /\ ~settings.show_word_diff
             /\ \A i \in DOMAIN sel : sel[i][1] = sel[i][2] => ~in_hunk(sel[i][1]) )
           => /\ out'.msg = "Not within a hunk"
              /\ out'.calls = <<>>
              /\ out'.refresh = 0
              /\ out'.ran = 0
              /\ out'.raised = ""
              /\ UNCHANGED <<settings, text, sel, repo, pending>>
      ]_vars

\* A stage with a cursor in a file header and a range inside a hunk has shown
\* the message and made no call.
C20_Witness ==
    /\ out.cmd = "stage"
    /\ out.msg = "Not within a hunk"
    /\ out.calls = <<>>
    /\ Len(sel) = 2
    /\ sel[1][1] = sel[1][2]
    /\ StartsWithAt(text, sel[1][1] - 1, "diff")
    /\ sel[2][1] < sel[2][2]
    /\ \E k \in DOMAIN parse_diff_in_view(text).hunks :
          /\ parse_diff_in_view(text).hunks[k][1] <= sel[2][1]
          /\ sel[2][2] < parse_diff_in_view(text).hunks[k][2]

\* C21: the call of git apply of a stage or reset has --unidiff-zero as its
\* fourth argument if and only if context_lines is 0 when the command runs,
\* and the entry it pushes records these arguments; the call of an undo has
\* the fourth argument of the entry it pops, whatever context_lines is then.
C21_UnidiffZero ==
    [][/\ (out'.cmd \in {"stage", "reset"} /\ out'.calls # <<>>)
          => /\ out'.calls[1].args[4] \in {"--unidiff-zero", None}
             /\ out'.calls[1].args[4] = "--unidiff-zero" <=> settings.context_lines = 0
             /\ Len(settings'.history) > Len(settings.history)
                => Last(settings'.history)[1] = out'.calls[1].args
       /\ (out'.cmd = "undo" /\ out'.calls # <<>>)
          => out'.calls[1].args[4] = Last(settings.history)[1][4]
      ]_vars

\* A hunk was staged with three lines of context, the view was zoomed to no
\* context, and the undo has issued the call without --unidiff-zero.
C21_Witness ==
    /\ out.cmd = "undo"
    /\ settings.context_lines = 0
    /\ Len(out.calls) = 1
    /\ out.calls[1].args[4] = None
    /\ out.raised = ""
    /\ settings.history = <<>>

\* C22: for every parsed hunk of the buffer that has a header, find_hunk_in_view
\* of the text of the header followed by the text of the hunk, searched in
\* the same buffer, is the start of that hunk.
C22_RoundTrip ==
    LET d == parse_diff_in_view(text)
    IN  \A i \in DOMAIN d.hunks :
          LET hh == head_and_hunk_for_pt(d, d.hunks[i][1])
          IN  (Len(hh) = 2 /\ hh[2] = d.hunks[i])
              => find_hunk_in_view(text, extract_content(text, hh[1])
                                         \o extract_content(text, hh[2]))
                 = d.hunks[i][1]

\* C23: in a zoom, for the N lines that follow the "@@ " line in the text of
\* a hunk under a cursor, shrink_list_sym yields the lists of lengths N, N-2,
\* ... down to 1 or 2, the k-th being the lines k..N+1-k (for odd N the last
\* one is the middle line alone), none of them empty and (N+1) div 2 of them
\* in all; the fuzzy search answers for the first of them that occurs in the
\* refreshed buffer, with the nearest "@@ " line before the match, and with
\* none when no list occurs; when no hunk is found again the zoom does not
\* set the cursor.
C23_SymmetricShrink ==
    [][(out'.cmd = "zoom" /\ out'.raised = "")
       => LET d == parse_diff_in_view(text)
              found == {head_and_hunk_for_pt(d, sel[i][1]) : i \in DOMAIN sel} \ {NotFound}
              old == {extract_content(text, hh[1]) \o extract_content(text, hh[2]) :
                        hh \in found}
          IN  \A new_text \in {text'} :
              /\ \A patch \in old :
                 \A lines \in {Tail(extract_first_hunk(patch))} :
                 \A cands \in {shrink_list_sym(lines)} :
                   LET N == Len(lines)
                       at == [k \in DOMAIN cands |->
                                 FindLiteral(new_text, join_lines(cands[k]))]
                       hits == {k \in DOMAIN cands : at[k] >= 0}
                   IN  /\ Len(cands) = (N + 1) \div 2
                       /\ \A k \in DOMAIN cands :
                            /\ cands[k] = SubSeq(lines, k, N + 1 - k)
                            /\ Len(cands[k]) = N - 2 * (k - 1)
                            /\ cands[k] # <<>>
                       /\ (N % 2 = 1) => Last(cands) = <<lines[(N + 1) \div 2]>>
                       /\ fuzzy_search_hunk_content_in_view(new_text, lines) =
                            IF hits = {} THEN -1
                            ELSE LET k == CHOOSE x \in hits : \A y \in hits : x <= y
                                 IN  find_hunk_start_before_pt(new_text, at[k])
              /\ (\A patch \in old : find_hunk_in_view(new_text, patch) = -1)
                 => ~out'.set_cursor /\ out'.cursor = <<>>
      ]_vars

\* A zoom from three lines of context to none has found the hunk under the
\* cursor again by its added line alone and has put the cursor on the new
\* "@@" line of the hunk.
C23_Witness ==
    /\ out.cmd = "zoom"
    /\ out.set_cursor
    /\ settings.context_lines = 0
    /\ out.cursor = <<<<FindLiteral(text, HunkText(1, 0, FALSE)),
                        FindLiteral(text, HunkText(1, 0, FALSE))>>>>
    /\ sel = out.cursor
    /\ FindLiteral(text, HunkText(1, 3, FALSE)) = -1

\* C24: within one parsed hunk, the line numbers of split_hunk start at the
\* new start of the "@@" line, never decrease, are one more after every line
\* whose mode is not "-" and the same after a "-" line, so that a deleted
\* line has the number of the nearest following line that is not deleted.
C24_LineNumbers ==
    \A diff \in {parse_diff_in_view(text)} :
      \A i \in DOMAIN diff.hunks :
        \A hunk \in {extract_content(text, diff.hunks[i])} :
          \A hunk_lines \in {split_hunk(hunk)} :
            LET lines == hunk_lines.lines
                head == split(hunk)[1]
                plus == FindLiteral(head, " +")
                new_start == int(Substr(head, plus + 2, DigitsEnd(head, plus + 3) - 1))
            IN  (hunk_lines.kind = "list" /\ lines # <<>>)
                => /\ lines[1].b = new_start
                   /\ \A k \in 1..(Len(lines) - 1) :
                         /\ lines[k + 1].b >= lines[k].b
                         /\ lines[k].mode # "-" => lines[k + 1].b = lines[k].b + 1
                         /\ lines[k].mode = "-" => lines[k + 1].b = lines[k].b
                   /\ \A k \in DOMAIN lines : \A n \in DOMAIN lines :
                         (/\ k < n
                          /\ lines[n].mode # "-"
                          /\ \A j \in k..(n - 1) : lines[j].mode = "-")
                         => lines[k].b = lines[n].b

\* The cursor was on the context line after the deleted line of a hunk that
\* starts at line 1, and the file was opened at line 3: the lines before it
\* are a context line, an added line and the deleted line.
C24_Witness ==
    /\ out.cmd = "open_file_at_hunk"
    /\ Contains(text, HunkDeletedBeforeContext)
    /\ sel = <<<<FindLiteral(text, " line4"), FindLiteral(text, " line4")>>>>
    /\ out.opened = <<[command |-> "open_file", commit_hash |-> None,
                       filepath |-> "a", row |-> 3, col |-> 1]>>

\* The cursors on the rows of deleted lines: for every point pt of a row of
\* a parsed hunk that holds a deleted line, the lines of the hunk, the row
\* of pt in the hunk (the "@@" line is row 0), the column of pt or 1 on the
\* mode character, and the jump position of pt.
OnDeletedRows(txt) ==
    LET diff == parse_diff_in_view(txt)
        cases(hunk) ==
            LET lines == split_hunk(extract_content(txt, hunk)).lines
                starts == SortedSeq({p \in LineStarts(txt) : hunk[1] < p /\ p < hunk[2]})
                deleted == {r \in DOMAIN starts \cap DOMAIN lines : lines[r].mode = "-"}
            IN  UNION {{[pt |-> pt, lines |-> lines, row |-> r,
                         col |-> Max(pt - starts[r], 1),
                         jp |-> jump_position_to_file(txt, diff, pt)] :
                           pt \in starts[r]..(LineEnd(txt, starts[r]) - 1)} :
                       r \in deleted}
    IN  UNION {cases(hunk) : hunk \in Range(diff.hunks)}

\* The rows after row in which the line is added or context.
NotDeletedAfter(lines, row) ==
    {n \in (row + 1)..Len(lines) : lines[n].mode \in {"+", " "}}

\* C25 (as stated): a cursor on a deleted row that is followed in the hunk by
\* an added or a context line is mapped to the line number of such a
\* following line, and never to a line before the deleted line.
C25_DeletedRowNeverBefore ==
    \A c \in OnDeletedRows(text) :
       NotDeletedAfter(c.lines, c.row) # {}
       => /\ c.jp.kind = "jump"
          /\ \E n \in NotDeletedAfter(c.lines, c.row) : c.jp.row = c.lines[n].b
          /\ c.jp.row >= c.lines[c.row].b

\* C25 (amended): a cursor on a deleted row that is followed in the hunk by
\* an added or a context line is mapped to the line number of the first such
\* line, unless that line is a context line whose indentation is not that of
\* the deleted line: then it is mapped to column 1 of the line before,
\* max(1, b - 1).
C25_DeletedRowTarget ==
    \A c \in OnDeletedRows(text) :
       LET after == NotDeletedAfter(c.lines, c.row)
           next_line == c.lines[CHOOSE n \in after : \A j \in after : n <= j]
           line == c.lines[c.row]
       IN  after # {}
           => /\ c.jp.kind = "jump"
              /\ IF /\ next_line.mode = " "
                    /\ line_indentation(next_line.text) # line_indentation(line.text)
                 THEN c.jp.row = Max(1, line.b - 1) /\ c.jp.col = 1
                 ELSE c.jp.row = next_line.b

\* The cursor was on the deleted line "a" of a hunk that starts at line 2;
\* the next line is a context line with another indentation, and the file
\* was opened at line 1.
C25_Witness ==
    /\ out.cmd = "open_file_at_hunk"
    /\ Contains(text, HunkDeletedBeforeIndented)
    /\ sel = <<<<FindLiteral(text, "-a\n"), FindLiteral(text, "-a\n")>>>>
    /\ out.opened = <<[command |-> "open_file", commit_hash |-> None,
                       filepath |-> "a", row |-> 1, col |-> 1]>>

\* C26 (as stated): on a deleted row, if any added line follows in the hunk,
\* the result is the number of the first following added line and the
\* column min(column, len(its text) + 1); a context line decides only when
\* no added line follows.
C26_AddedLinePreferred ==
    \A c \in OnDeletedRows(text) :
       LET added == {n \in NotDeletedAfter(c.lines, c.row) : c.lines[n].mode = "+"}
           first_added == c.lines[CHOOSE n \in added : \A j \in added : n <= j]
       IN  added # {}
           => /\ c.jp.kind = "jump"
              /\ c.jp.row = first_added.b
              /\ c.jp.col = Min(c.col, Len(first_added.text) + 1)

\* C26 (amended): on a deleted row, the first following line of the hunk
\* that is not deleted decides.  If it is an added line, the result is its
\* number and the column min(column, len(its text) + 1); if it is a context
\* line, the result is its number and its indentation + 1 when it is
\* indented as the deleted line, and else column 1 of max(1, b - 1); if
\* there is none, the result is column 1 of the number of the deleted line.
\* A context line in front of an added line decides.
C26_FirstNotDeletedDecides ==
    \A c \in OnDeletedRows(text) :
       LET after == NotDeletedAfter(c.lines, c.row)
           next_line == c.lines[CHOOSE n \in after : \A j \in after : n <= j]
           line == c.lines[c.row]
           expected ==
               IF after = {} THEN <<line.b, 1>>
               ELSE IF next_line.mode = "+"
               THEN <<next_line.b, Min(c.col, Len(next_line.text) + 1)>>
               ELSE IF line_indentation(next_line.text) = line_indentation(line.text)
               THEN <<next_line.b, line_indentation(next_line.text) + 1>>
               ELSE <<Max(1, line.b - 1), 1>>
       IN  c.jp.kind = "jump" /\ <<c.jp.row, c.jp.col>> = expected

\* The cursor was at the end of the deleted line "a" of a hunk that starts at
\* line 2; a context line and then the added line "c" follow, and the file
\* was opened at line 1, not at line 3 of the added line.
C26_Witness ==
    /\ out.cmd = "open_file_at_hunk"
    /\ Contains(text, HunkDeletedBeforeIndented)
    /\ sel = <<<<FindLiteral(text, "-a\n") + 2, FindLiteral(text, "-a\n") + 2>>>>
    /\ out.opened = <<[command |-> "open_file", commit_hash |-> None,
                       filepath |-> "a", row |-> 1, col |-> 1]>>

\* The cursors in the hunks: for every point pt of a parsed hunk, the column
\* of pt in its line and the jump position of pt.
InHunks(txt) ==
    LET diff == parse_diff_in_view(txt)
    IN  UNION {{[pt |-> pt, col |-> rowcol(txt, pt)[2],
                 jp |-> jump_position_to_file(txt, diff, pt)] :
                   pt \in hunk[1]..Min(hunk[2] - 1, Len(txt))} :
               hunk \in Range(diff.hunks)}

\* C27: every position the cursors in the hunks are mapped to has a line
\* number of at least 1 and a column of at least 1, and a cursor in column 0
\* of its line (on the mode character) is mapped to column 1.
C27_OneBased ==
    \A c \in InHunks(text) :
       c.jp.kind = "jump"
       => /\ c.jp.row >= 1
          /\ c.jp.col >= 1
          /\ c.col = 0 => c.jp.col = 1

\* C29: for every cursor that head_and_hunk_for_pt places inside a hunk, the
\* end of the buffer in the last hunk and the blank and empty lines
\* included, the mapping of the jump to the file returns a position or None,
\* and no access out of range ends it.
C29_MappingTotal ==
    \A c \in InHunks(text) : c.jp.kind \in {"jump", "None"}

\* C28: while the diff of a view ignores whitespace or shows the words that
\* differ, a stage or a reset shows the error and does nothing else: no call
\* of git, no entry on the history, just_hunked as it was, no refresh,
\* whatever the cursors are.
C28_RefusedUnlessCleanDiff ==
    [][(/\ out'.cmd \in {"stage", "reset"}
        /\ (settings.ignore_whitespace \/ settings.show_word_diff))
       => /\ out'.msg = "You have to be in a clean diff to stage."
          /\ out'.calls = <<>>
          /\ out'.refresh = 0 /\ out'.ran = 0
          /\ settings'.history = settings.history
          /\ settings'.just_hunked = settings.just_hunked
          /\ settings' = settings
          /\ text' = text /\ sel' = sel /\ repo' = repo /\ pending' = pending
      ]_vars

\* The words that differ were switched on, a cursor was put into a hunk, and
\* the stage was refused.
C28_Witness ==
    /\ out.cmd = "stage"
    /\ settings.show_word_diff /\ ~settings.ignore_whitespace
    /\ patch_of(text, parse_diff_in_view(text), cursor_pts(sel)) # ""
    /\ out.msg = "You have to be in a clean diff to stage."
    /\ out.calls = <<>>
    /\ settings.history = <<>>

\* The texts that are searched in a buffer: header and hunk of every hunk of
\* the buffer, as GsDiffZoom.run extracts them, and header and hunk of the
\* hunks of the repository with no, 3 and 5 lines of context.
RelocationAnchors(txt) ==
    LET diff == parse_diff_in_view(txt)
        found == {hh \in {head_and_hunk_for_pt(diff, diff.hunks[i][1]) :
                            i \in DOMAIN diff.hunks} : Len(hh) = 2}
    IN  {extract_content(txt, hh[1]) \o extract_content(txt, hh[2]) : hh \in found}
        \cup {FileHeader(HunkFile(h)) \o HunkText(h, c, FALSE) : h \in Hunks, c \in {0, 3, 5}}

\* C30: whenever find_hunk_in_view finds the text of a hunk in the buffer,
\* by its "@@" line or by its lines, the point it returns is the start of a
\* hunk of the parsed buffer and of a line that starts with "@@ "; when the
\* lines were found, it is the nearest such line in the rows before the row
\* of the match.
C30_RelocationTarget ==
    \A diff \in {parse_diff_in_view(text)} :
      \A anchor \in RelocationAnchors(text) :
        \A hunk_content \in {extract_first_hunk(anchor)} :
          \A found \in {find_hunk_in_view(text, anchor)} :
            LET exact == FindLiteral(text, hunk_content[1])
                lists == shrink_list_sym(Tail(hunk_content))
                hits == {k \in DOMAIN lists : FindLiteral(text, join_lines(lists[k])) >= 0}
                match == FindLiteral(text, join_lines(lists[CHOOSE k \in hits :
                                                               \A j \in hits : k <= j]))
                marked == {p \in LineStarts(text) : StartsWithAt(text, p, "@@ ")}
            IN  found >= 0
                => /\ found \in {diff.hunks[i][1] : i \in DOMAIN diff.hunks}
                   /\ found \in marked
                   /\ exact < 0
                      => /\ hits # {}
                         /\ found < LineStartOf(text, match)
                         /\ \A p \in marked : p < LineStartOf(text, match) => p <= found

BothCommits(s) == s.base_commit # None /\ s.target_commit # None

\* C32: a toggle flips in_cached_mode exactly when base_commit and
\* target_commit are not both set, and then leaves the two commits; when
\* both are set it swaps them and leaves in_cached_mode, last_cursors and
\* just_hunked; a toggle taken in the state it leads to takes the same
\* branch, so that two consecutive toggles restore (in_cached_mode,
\* base_commit, target_commit); no toggle changes the history.
C32_ToggleIsInvolution ==
    [][out'.cmd = "toggle_cached"
       => /\ (settings'.in_cached_mode # settings.in_cached_mode)
              <=> ~BothCommits(settings)
          /\ IF BothCommits(settings)
             THEN /\ settings'.base_commit = settings.target_commit
                  /\ settings'.target_commit = settings.base_commit
                  /\ settings'.last_cursors = settings.last_cursors
                  /\ settings'.just_hunked = settings.just_hunked
             ELSE /\ settings'.base_commit = settings.base_commit
                  /\ settings'.target_commit = settings.target_commit
          /\ BothCommits(settings') <=> BothCommits(settings)
          /\ settings'.history = settings.history ]_vars

\* The second of two consecutive toggles has run in a view of two commits:
\* base and target are those of the construction again.
C32_Witness ==
    /\ out.cmd = "toggle_cached"
    /\ steps = 2
    /\ settings.base_commit = "b"
    /\ settings.target_commit = "t"
    /\ out.refresh = 1

(***************************************************************************)
(* GsDiffToggleCachedMode: the hint of the last hunk and the saved cursors *)
(***************************************************************************)
\* C33: only a toggle of in_cached_mode writes last_cursors, and it saves
\* the cursors it finds, at least one.  A toggle that ends without an
\* exception and finds no saved cursors keeps just_hunked and leaves the
\* cursors where the refresh left them; one that finds saved cursors clears
\* a non-empty just_hunked, whether or not the hunk is in the new buffer,
\* and puts the cursor on the start of that hunk if it is, on the saved
\* cursors otherwise.
C33_HintNeedsSavedCursors ==
    [][/\ (out'.cmd # "toggle_cached" \/ BothCommits(settings))
          => settings'.last_cursors = settings.last_cursors
       /\ (out'.cmd = "toggle_cached" /\ ~BothCommits(settings))
          => settings'.last_cursors = sel /\ sel # <<>>
       /\ (out'.cmd = "toggle_cached" /\ ~BothCommits(settings) /\ out'.raised = "")
          => \A new_text \in {text'} :
             \A refreshed \in {gs_diff_refresh(
                                   [settings EXCEPT
                                       !.last_cursors = sel,
                                       !.in_cached_mode = ~settings.in_cached_mode],
                                   text, sel, repo, pending, TRUE,
                                   git_diff_outcome(env))} :
             \A found \in {find_hunk_in_view(new_text, settings.just_hunked)} :
               IF settings.last_cursors = <<>>
               THEN /\ settings'.just_hunked = settings.just_hunked
                    /\ sel' = refreshed.sel
                    /\ ~out'.set_cursor
               ELSE /\ settings'.just_hunked = ""
                    /\ sel' = IF settings.just_hunked # "" /\ found >= 0
                              THEN <<<<found, found>>>>
                              ELSE set_and_show_cursor(settings.last_cursors)
                    /\ (settings.just_hunked # "" /\ found >= 0)
                       => found \in Range(hunk_starts(new_text,
                                                     LineStarts(new_text)))
      ]_vars

\* A toggle, a hunk staged in the index view, and a second toggle: the hint
\* is cleared and the cursor is on the hunk the working tree got back, not
\* where the first toggle saved it.
C33_Witness ==
    /\ out.cmd = "toggle_cached"
    /\ out.raised = ""
    /\ steps = 3
    /\ Len(settings.history) = 1
    /\ settings.just_hunked = ""
    /\ Len(sel) = 1
    /\ sel[1][1] = find_hunk_in_view(text, settings.history[1][2])
    /\ sel[1][1] >= 0
    /\ out.set_cursor

=============================================================================
